---- MODULE Spec2Model ----
(***************************************************************************)
(* A model of the archetype ECS of this repository (crate ecs-complete,    *)
(* with the parts ecs-basic shares): the World with its SlotMap of entity  *)
(* locations, the ArchetypeMap with its type_map and transition graph, the *)
(* archetypes with their type-erased columns.                              *)
(*                                                                         *)
(* Conventions.                                                            *)
(*  - Indices are the code's: archetype indices and rows are 0-based, so   *)
(*    archetype i is archetypes[i + 1] and row r is entities[r + 1].       *)
(*    Column positions inside an archetype are kept 1-based (0: None).     *)
(*  - A column's allocation is modelled word by word (one word: 4 bytes):  *)
(*    data is the sequence of capacity * item_size words.  The word        *)
(*    <<T, k, v>> is the k-th word of the value v of component type T, and *)
(*    U is a word whose content is indeterminate (never written, or read   *)
(*    outside the allocation).  A typed read returns the words it finds.   *)
(*  - A panic ends the run: status becomes "panic" and nothing is done     *)
(*    afterwards.  A write outside an allocation is undefined behaviour:   *)
(*    status "ub" stands for every outcome and ends the run as well.       *)
(*  - shadow is the history the properties speak about: for every entity   *)
(*    spawned and not despawned, the value last written for each of        *)
(*    the components it was given.  No operation of the program reads it.  *)
(***************************************************************************)
EXTENDS Integers, Sequences, FiniteSets, TLC

\* ---------------------------------------------------------------- bounds
\* Entities ever spawned in one run.
MaxSpawns == 3
\* Component values are 1..MaxVal.
MaxVal == 2
\* World::tick() calls in one run.
MaxTick == 1
\* Calls made on the World in one run.
MaxSteps == 5
\* Calls made on the World in one run that iterates queries.
MaxQuerySteps == 4
\* Systems added to a schedule in one run.
MaxSystems == 3
\* Entities spawned by the program that fills and runs a Schedule.
MaxStageSteps == 1
\* Events held by an Events<T> at one time.
MaxEvents == 4
\* Commands in the deferred-command queue at one time.
MaxQueue == 2
\* Calls made on the World in one run that queues commands, the calls of
\* flush_commands() apart.
MaxCmdSteps == 4
\* Entity ids the EntityAllocator mints in one run.
MaxIds == 2
\* Calls made on the EntityAllocator in one run.
MaxAllocSteps == 10
\* The width of a generation in bits: 32 in the source (u32), scaled down so
\* that the counter's whole range is within reach.
GenBits == 2

\* ------------------------------------------------------- component types
\* Two component types of the crate's tests: Position and Health.
Types == {"P", "H"}

\* size_of::<T>() in 4-byte words: Position is two f32, Health is one.
SizeOf(T) == IF T = "H" THEN 1 ELSE 2

\* std::any::type_name::<T>()
type_name(T) == T

Vals == 1..MaxVal

\* A word of indeterminate content.
U == <<"U", 0, 0>>

\* The words of the value v of type T.
WordsOf(T, v) == [k \in 1..SizeOf(T) |-> <<T, k, v>>]

\* The bundles spawned: the tuples (T,) and (T1, T2) of distinct types, in
\* either declaration order.
Bundles ==
    {<<T>> : T \in Types} \cup
    {<<T1, T2>> : <<T1, T2>> \in {p \in Types \X Types : p[1] # p[2]}}

\* The TypeId orders a build can produce: TypeId is an opaque hash, so any
\* order of the types.
TidOrders == {f \in [Types -> 1..Cardinality(Types)] :
                 \A S, T \in Types : S # T => f[S] # f[T]}

VARIABLES
    tid,         \* TypeId::of::<T>(), fixed by the build
    slots,       \* World.entities: the SlotMap's slots, [gen, occupied, loc]
    free,        \* the SlotMap's free list, most recently freed first
    archetypes,  \* ArchetypeMap.archetypes
    type_map,    \* ArchetypeMap.type_map: sorted signature -> index
    edges,       \* ArchetypeGraph.edges: <<from, T, is_add>> -> to
    tick,        \* World.tick
    status,      \* "ok", or "panic" / "ub" once the run has ended so
    steps,       \* the number of calls made
    shadow,      \* history: entity -> (component type -> value last written)
    dropped,     \* history: the calls of drop_fn, [drop_fn, words], in order
    generations, \* EntityAllocator.generations (ecs-basic)
    free_list,   \* EntityAllocator.free_list, top of the stack last
    next_id,     \* EntityAllocator.next_id
    alloc_status,\* "ok", or "panic" once an allocator call has panicked
    issued,      \* history: the handles allocate has returned
    allocated,   \* history: the handles allocated and not freed since
    freed,       \* history: the handles for which free has returned true
    reissued,    \* history: allocate has returned a handle a second time
    systems,     \* the systems added to a schedule, [reads, writes] each
    stage_batches, \* StageExecutor.batches (ecs-parallel)
    last_run,    \* history: the last run since a system was added:
                 \* [by, batches, executed]
    rebuild,     \* a rebuild_batches() call in progress: its systems, the
                 \* locals remaining and batches, and the passes made
    stages,      \* Schedule.stages (ecs-complete): the systems of each stage
    ran,         \* history: the systems that the last Schedule::run ran
    events,      \* Events<T>: [events, start_index]
    sent,        \* history: the events sent since the last update() or clear()
    commands,    \* World.commands: Commands.queue
    flushed      \* history: the queue that the last flush_commands() drained

worldVars == <<tid, slots, free, archetypes, type_map, edges, tick, status, steps, shadow,
               dropped>>
allocVars == <<generations, free_list, next_id, alloc_status, issued, allocated,
               freed, reissued>>
schedVars == <<systems, stage_batches, last_run>>
eventVars == <<events, sent>>
extraVars == <<rebuild, stages, ran, eventVars>>
queueVars == <<commands, flushed>>
vars == <<worldVars, allocVars, schedVars, extraVars, queueVars>>

\* ------------------------------------------------------------- sequences
\* slice.iter().position(|&t| t == x), 1-based; 0 is None.
Position(seq, x) ==
    IF \E i \in 1..Len(seq) : seq[i] = x
    THEN CHOOSE i \in 1..Len(seq) : seq[i] = x /\ \A j \in 1..(i - 1) : seq[j] # x
    ELSE 0

Contains(seq, x) == Position(seq, x) # 0

\* Vec::remove(pos), pos 1-based.
RemoveAt(seq, pos) ==
    [i \in 1..(Len(seq) - 1) |-> IF i < pos THEN seq[i] ELSE seq[i + 1]]

\* Vec::swap_remove(index) on a vector that holds index (0-based): the last
\* element takes the place of the removed one.
SwapRemoved(seq, index) ==
    [i \in 1..(Len(seq) - 1) |-> IF i = index + 1 THEN seq[Len(seq)] ELSE seq[i]]

RECURSIVE InsertSorted(_, _, _)
InsertSorted(seq, x, order) ==
    IF seq = <<>> THEN <<x>>
    ELSE IF order[x] < order[Head(seq)] THEN <<x>> \o seq
    ELSE <<Head(seq)>> \o InsertSorted(Tail(seq), x, order)

RECURSIVE SortBy(_, _)
\* types.sort_unstable(): ascending TypeId.
SortBy(seq, order) ==
    IF seq = <<>> THEN <<>>
    ELSE InsertSorted(SortBy(Tail(seq), order), Head(seq), order)

\* The orders in which the elements of the set S can come: the orders a set
\* of types can be passed in, the orders a HashSet can be iterated in.
OrdersOf(S) ==
    {p \in [1..Cardinality(S) -> S] :
        \A i, j \in 1..Cardinality(S) : i # j => p[i] # p[j]}

\* ---------------------------------------------------------------- Column
\* Archetype::add_column::<T>(): an empty column with T's size and drop_fn
\* (the drop_fn of T is named by T).
NewColumn(T) ==
    [data |-> <<>>, len |-> 0, capacity |-> 0, item_size |-> SizeOf(T),
     changed_ticks |-> <<>>, drop_fn |-> T]

\* Archetype::add_column_raw(item_size, drop_fn)
NewColumnRaw(item_size, drop_fn) ==
    [data |-> <<>>, len |-> 0, capacity |-> 0, item_size |-> item_size,
     changed_ticks |-> <<>>, drop_fn |-> drop_fn]

\* Column::reserve(additional): alloc or realloc to capacity + additional;
\* realloc keeps the old words, the new ones are indeterminate.
ColumnReserve(c, additional) ==
    IF additional = 0 THEN c
    ELSE LET new_capacity == c.capacity + additional
         IN [c EXCEPT !.capacity = new_capacity,
                      !.data = [i \in 1..(new_capacity * c.item_size) |->
                                   IF i <= Len(c.data) THEN c.data[i] ELSE U]]

\* Column::grow(): 4 slots at first, then double.
ColumnGrow(c) ==
    LET new_capacity == IF c.capacity = 0 THEN 4 ELSE c.capacity * 2
    IN ColumnReserve(c, new_capacity - c.capacity)

\* The words at data + index * item_size, n of them (ptr::read, the source
\* of a copy_nonoverlapping); a word outside the allocation is indeterminate.
ReadWords(c, index, n) ==
    [k \in 1..n |->
        IF index * c.item_size + k <= Len(c.data)
        THEN c.data[index * c.item_size + k] ELSE U]

\* Whether n words at data + index * item_size lie inside the allocation.
InAllocation(c, index, n) == index * c.item_size + n <= Len(c.data)

\* ptr::write / copy_nonoverlapping to data + index * item_size.
WriteWords(c, index, words) ==
    [c EXCEPT !.data = [i \in 1..Len(c.data) |->
        IF i > index * c.item_size /\ i <= index * c.item_size + Len(words)
        THEN words[i - index * c.item_size] ELSE c.data[i]]]

\* Drop for Column: drop_fn is called on the slots 0..len of an allocated
\* column, then the allocation is freed.  The calls, in order.
ColumnDrop(c) ==
    IF c.capacity > 0
    THEN [i \in 1..c.len |-> [drop_fn |-> c.drop_fn,
                              words |-> ReadWords(c, i - 1, c.item_size)]]
    ELSE <<>>

\* ------------------------------------------------------------- Archetype
\* Archetype::new(id, types, type_names)
NewArchetype(id, types, type_names) ==
    [id |-> id, types |-> types, type_names |-> type_names,
     columns |-> <<>>, entities |-> <<>>, tick |-> 0]

\* Archetype::len()
ArchLen(a) == Len(a.entities)

\* The results of the archetype operations that can fail: f is "none", or
\* how the call ended ("panic"; "ub": a write outside an allocation;
\* "underflow": column.len - 1 at len 0, a panic in a debug build and a wild
\* copy in a release build), and a is the archetype afterwards.
Done(a) == [f |-> "none", a |-> a]
Fault(f, a) == [f |-> f, a |-> a]

\* The first fault of the per-column results rs, "none" if there is none.
FirstFault(rs) ==
    IF \E i \in 1..Len(rs) : rs[i].f # "none"
    THEN rs[CHOOSE i \in 1..Len(rs) :
               rs[i].f # "none" /\ \A j \in 1..(i - 1) : rs[j].f = "none"].f
    ELSE "none"

\* Archetype::push_entity(entity)
push_entity(a, entity) ==
    [a EXCEPT !.entities = Append(a.entities, entity),
              !.columns = [i \in 1..Len(a.columns) |->
                  LET c == a.columns[i]
                      c1 == [c EXCEPT !.len = c.len + 1,
                                      !.changed_ticks = Append(c.changed_ticks, a.tick)]
                  IN IF c1.len > c1.capacity THEN ColumnGrow(c1) ELSE c1]]

\* Archetype::set_component::<T>(index, component): the column is the one at
\* T's position in types; the value is written at index * item_size.
set_component(a, index, T, v) ==
    LET column_index == Position(a.types, T)
    IN IF column_index = 0 \/ column_index > Len(a.columns)
       THEN Fault("panic", a)      \* expect(..) fails, or columns[column_index]
       ELSE LET c == a.columns[column_index]
            IN IF ~InAllocation(c, index, SizeOf(T))
               THEN Fault("ub", a)
               ELSE IF index >= Len(c.changed_ticks)
               THEN Fault("panic", a)   \* changed_ticks[index]
               ELSE Done([a EXCEPT !.columns[column_index] =
                       [WriteWords(c, index, WordsOf(T, v))
                           EXCEPT !.changed_ticks[index + 1] = a.tick]])

\* Archetype::get_component::<T>(index): <<"None">>, or <<"Some", words>> with
\* the words read for T at index * item_size.  <<"Panic">> is columns[..] out
\* of range.
get_component(a, index, T) ==
    LET column_index == Position(a.types, T)
    IN IF column_index = 0 THEN <<"None">>
       ELSE IF column_index > Len(a.columns) THEN <<"Panic">>
       ELSE LET c == a.columns[column_index]
            IN IF index >= c.len THEN <<"None">>
               ELSE <<"Some", ReadWords(c, index, SizeOf(T))>>

\* Archetype::component_changed::<T>(index, since_tick)
component_changed(a, index, T, since_tick) ==
    LET column_index == Position(a.types, T)
    IN IF column_index = 0 THEN <<"false">>
       ELSE IF column_index > Len(a.columns) THEN <<"Panic">>
       ELSE IF index < Len(a.columns[column_index].changed_ticks)
       THEN IF a.columns[column_index].changed_ticks[index + 1] > since_tick
            THEN <<"true">> ELSE <<"false">>
       ELSE <<"false">>

\* Archetype::take_component::<T>(index): the same read, by value.
take_component(a, index, T) == get_component(a, index, T)

\* The body of remove_entity's loop for one column.
RemoveColumnRow(c, index) ==
    IF c.len = 0 THEN Fault("underflow", c)
    ELSE LET last == c.len - 1
             popped(col) == [col EXCEPT !.len = col.len - 1,
                                        !.changed_ticks = SubSeq(col.changed_ticks, 1,
                                                                 Len(col.changed_ticks) - 1)]
         IN IF index = last THEN Done(popped(c))
            ELSE IF ~InAllocation(c, index, c.item_size) THEN Fault("ub", c)
            ELSE IF index >= Len(c.changed_ticks) THEN Fault("panic", c)
            ELSE Done(popped(
                    [WriteWords(c, index, ReadWords(c, last, c.item_size))
                        EXCEPT !.changed_ticks[index + 1] = c.changed_ticks[last + 1]]))

\* Archetype::remove_entity(index): entities.swap_remove(index), which panics
\* when index is out of range, then every column's row is overwritten by its
\* last row.  e is the entity returned: what swap_remove returns, the element
\* removed.
remove_entity(a, index) ==
    IF index >= Len(a.entities) THEN [f |-> "panic", a |-> a, e |-> <<0, 0>>]
    ELSE LET entity == a.entities[index + 1]
             rs == [i \in 1..Len(a.columns) |-> RemoveColumnRow(a.columns[i], index)]
         IN [f |-> FirstFault(rs),
             a |-> [a EXCEPT !.entities = SwapRemoved(a.entities, index),
                             !.columns = [i \in 1..Len(a.columns) |-> rs[i].a]],
             e |-> entity]

\* Archetype::copy_component_from(to_index, from_archetype, from_index, type_id)
copy_component_from(to, to_index, from, from_index, T) ==
    LET to_col_idx == Position(to.types, T)
        from_col_idx == Position(from.types, T)
    IN IF to_col_idx = 0 \/ from_col_idx = 0 THEN Done(to)
       ELSE IF to_col_idx > Len(to.columns) \/ from_col_idx > Len(from.columns)
       THEN Fault("panic", to)     \* columns[..] out of range
       ELSE LET to_column == to.columns[to_col_idx]
                from_column == from.columns[from_col_idx]
            IN IF to_index < to_column.len /\ from_index < from_column.len
               THEN Done([to EXCEPT !.columns[to_col_idx] =
                       [WriteWords(to_column, to_index,
                                   ReadWords(from_column, from_index, to_column.item_size))
                           EXCEPT !.changed_ticks[to_index + 1] =
                                      from_column.changed_ticks[from_index + 1]]])
               ELSE Done(to)

\* ---------------------------------------------------------- ArchetypeMap
\* The ArchetypeMap as one value: am.archetypes, am.type_map, am.edges.

\* A get_or_create that looks the signature up as it was passed, unsorted.
GetOrCreateUnsorted(am, types, type_names) ==
    IF types \in DOMAIN am.type_map
    THEN [am |-> am, index |-> am.type_map[types]]
    ELSE LET index == Len(am.archetypes)
         IN [am |-> [am EXCEPT
                       !.archetypes = Append(am.archetypes,
                                             NewArchetype(index, types, type_names)),
                       !.type_map = (types :> index) @@ am.type_map],
             index |-> index]

\* ArchetypeMap::get_or_create(types, type_names): the index of the archetype
\* with the sorted signature, appended when there is none.  The names are
\* stored as passed.
get_or_create(am, types, type_names) ==
    LET sorted == SortBy(types, tid)
    IN IF sorted \in DOMAIN am.type_map
       THEN [am |-> am, index |-> am.type_map[sorted]]
       ELSE LET index == Len(am.archetypes)
            IN [am |-> [am EXCEPT
                          !.archetypes = Append(am.archetypes,
                                                NewArchetype(index, sorted, type_names)),
                          !.type_map = (sorted :> index) @@ am.type_map],
                index |-> index]

\* ArchetypeGraph::get_edge(from, component, is_add); -1 is None.
get_edge(am, from, component, is_add) ==
    IF <<from, component, is_add>> \in DOMAIN am.edges
    THEN am.edges[<<from, component, is_add>>] ELSE -1

\* An add_edge that files the edge under the opposite direction.
AddEdgeOpposite(am, from, to, component, is_add) ==
    [am EXCEPT !.edges = (<<from, component, ~is_add>> :> to) @@
                         [k \in DOMAIN am.edges \ {<<from, component, ~is_add>>} |-> am.edges[k]]]

\* ArchetypeGraph::add_edge(from, to, component, is_add)
add_edge(am, from, to, component, is_add) ==
    [am EXCEPT !.edges = (<<from, component, is_add>> :> to) @@
                         [k \in DOMAIN am.edges \ {<<from, component, is_add>>} |-> am.edges[k]]]

\* ArchetypeMap::find_archetype_with_added / find_archetype_with_removed
find_archetype_with_added(am, from, add) == get_edge(am, from, add, TRUE)
find_archetype_with_removed(am, from, remove) == get_edge(am, from, remove, FALSE)

\* ArchetypeMap::create_archetype_with_added(from, add, add_name)
create_archetype_with_added(am, from, add, add_name) ==
    LET from_arch == am.archetypes[from + 1]
        new_types == Append(from_arch.types, add)
        new_names == Append(from_arch.type_names, add_name)
        r == get_or_create(am, new_types, new_names)
    IN [am |-> add_edge(r.am, from, r.index, add, TRUE), index |-> r.index]

\* ArchetypeMap::create_archetype_with_removed(from, remove)
create_archetype_with_removed(am, from, remove) ==
    LET from_arch == am.archetypes[from + 1]
        pos == Position(from_arch.types, remove)
        new_types == IF pos # 0 THEN RemoveAt(from_arch.types, pos) ELSE from_arch.types
        new_names == IF pos # 0 THEN RemoveAt(from_arch.type_names, pos)
                     ELSE from_arch.type_names
        r == get_or_create(am, new_types, new_names)
    IN [am |-> add_edge(r.am, from, r.index, remove, FALSE), index |-> r.index]

\* ---------------------------------------------------------------- SlotMap
\* World.entities, a SlotMap<Entity, EntityLocation>.  An Entity is the key
\* <<idx, gen>>: slot idx (from 1) and the number of the slot's occupant.

\* A key test that looks at the slot and not at the version of the key: a
\* handle whose slot was given to a later entity passes it.
ContainsKeyAnyVersion(sl, entity) ==
    /\ entity[1] \in 1..Len(sl)
    /\ sl[entity[1]].occupied

\* SlotMap::contains_key(entity)
contains_key(sl, entity) ==
    /\ entity[1] \in 1..Len(sl)
    /\ sl[entity[1]].occupied
    /\ sl[entity[1]].gen = entity[2]

\* The key SlotMap::insert returns next: the most recently freed slot with its
\* version advanced, or a new slot.
NextKey(sl, fr) ==
    IF fr # <<>> THEN <<Head(fr), sl[Head(fr)].gen + 1>> ELSE <<Len(sl) + 1, 1>>

\* The slots after SlotMap::insert(loc).
SlotsInsert(sl, fr, loc) ==
    LET k == NextKey(sl, fr)
        slot == [gen |-> k[2], occupied |-> TRUE, loc |-> loc]
    IN IF fr # <<>> THEN [sl EXCEPT ![k[1]] = slot] ELSE Append(sl, slot)

\* A vacant slot holds no location.
NoLocation == [archetype |-> 0, index |-> 0]

\* The slots after SlotMap::remove(entity) of a key the map holds.
SlotsRemove(sl, entity) ==
    [sl EXCEPT ![entity[1]].occupied = FALSE, ![entity[1]].loc = NoLocation]

\* Every handle issued so far, alive or not.
Handles == {h \in (1..Len(slots)) \X (1..MaxSpawns) : h[2] <= slots[h[1]].gen}

\* Entities spawned so far.
RECURSIVE SumGen(_)
SumGen(sl) == IF sl = <<>> THEN 0 ELSE Head(sl).gen + SumGen(Tail(sl))

\* -------------------------------------------------------- EntityAllocator
\* ecs-basic's allocator as one value al: al.generations (generations[id] is
\* al.generations[id + 1]), al.free_list and al.next_id.  An Entity is the
\* record [id, generation].
GenModulus == 2 ^ GenBits

\* EntityAllocator::new()
NewAllocator == [generations |-> <<>>, free_list |-> <<>>, next_id |-> 0]

\* EntityAllocator::allocate()
allocate(al) ==
    IF al.free_list # <<>>
    THEN LET id == al.free_list[Len(al.free_list)]
         IN [al |-> [al EXCEPT !.free_list = SubSeq(al.free_list, 1, Len(al.free_list) - 1)],
             ret |-> [id |-> id, generation |-> al.generations[id + 1]]]
    ELSE [al |-> [al EXCEPT !.next_id = al.next_id + 1,
                            !.generations = Append(al.generations, 0)],
          ret |-> [id |-> al.next_id, generation |-> 0]]

\* EntityAllocator::free(entity).  f is "overflow" when generations[id] += 1
\* exceeds the width: the build then either panics (overflow checks) or
\* wraps, and al is the allocator after the wrap.
allocator_free(al, entity) ==
    IF entity.id >= Len(al.generations)
    THEN [f |-> "none", al |-> al, ret |-> FALSE]
    ELSE IF al.generations[entity.id + 1] # entity.generation
    THEN [f |-> "none", al |-> al, ret |-> FALSE]
    ELSE [f |-> IF al.generations[entity.id + 1] + 1 >= GenModulus
                THEN "overflow" ELSE "none",
          al |-> [al EXCEPT !.generations[entity.id + 1] = (@ + 1) % GenModulus,
                            !.free_list = Append(al.free_list, entity.id)],
          ret |-> TRUE]

\* EntityAllocator::is_alive(entity)
allocator_is_alive(al, entity) ==
    /\ entity.id < Len(al.generations)
    /\ al.generations[entity.id + 1] = entity.generation

\* ------------------------------------------------------------------ World
\* The World as one value w: w.slots, w.free (World.entities) and w.am
\* (World.archetypes).  An operation returns [f, w, ret]: the fault that
\* ended it ("none" when it returned), the world afterwards and the value
\* returned.
Ret(w, ret) == [f |-> "none", w |-> w, ret |-> ret]
Abort(f, w) == [f |-> f, w |-> w, ret |-> <<"Panic">>]

EntityNotFound(entity) == <<"Err", "EntityNotFound", entity>>
ComponentNotFound(T) == <<"Err", "ComponentNotFound", T>>
ArchetypeNotFound(index) == <<"Err", "ArchetypeNotFound", index>>

\* Bundle::type_names()
type_names(bundle) == [i \in 1..Len(bundle) |-> type_name(bundle[i])]

\* Bundle::init_archetype(archetype): one add_column per component, in the
\* bundle's declaration order.
init_archetype(a, bundle) ==
    [a EXCEPT !.columns = a.columns \o [i \in 1..Len(bundle) |-> NewColumn(bundle[i])]]

RECURSIVE insert_into(_, _, _, _)
\* Bundle::insert_into(archetype, index): set_component for each component.
insert_into(a, index, bundle, v) ==
    IF bundle = <<>> THEN Done(a)
    ELSE LET r == set_component(a, index, Head(bundle), v)
         IN IF r.f # "none" THEN r ELSE insert_into(r.a, index, Tail(bundle), v)

\* The test that decides whether spawn declares the columns.
SpawnInitsColumns(a) == ArchLen(a) = 0

\* World::spawn(bundle)
spawn(w, bundle, v) ==
    LET r == get_or_create(w.am, bundle, type_names(bundle))
        archetype_index == r.index
        a0 == r.am.archetypes[archetype_index + 1]
        a1 == IF SpawnInitsColumns(a0) THEN init_archetype(a0, bundle) ELSE a0
        entity_index == ArchLen(a1)
        entity == NextKey(w.slots, w.free)
        sl == SlotsInsert(w.slots, w.free,
                          [archetype |-> archetype_index, index |-> entity_index])
        fr == IF w.free # <<>> THEN Tail(w.free) ELSE w.free
        r3 == insert_into(push_entity(a1, entity), entity_index, bundle, v)
    IN IF r3.f # "none" THEN Abort(r3.f, w)
       ELSE Ret([slots |-> sl, free |-> fr,
                 am |-> [r.am EXCEPT !.archetypes[archetype_index + 1] = r3.a]],
                <<"Entity", entity>>)

\* The slots after `if swapped_entity != entity { if let Some(l) =
\* entities.get_mut(swapped_entity) { l.index = index } }`.
UpdateSwapped(sl, swapped_entity, entity, index) ==
    IF swapped_entity # entity /\ contains_key(sl, swapped_entity)
    THEN [sl EXCEPT ![swapped_entity[1]].loc.index = index]
    ELSE sl

\* World::despawn(entity)
despawn(w, entity) ==
    IF contains_key(w.slots, entity)
    THEN LET location == w.slots[entity[1]].loc
             sl == SlotsRemove(w.slots, entity)
             r == remove_entity(w.am.archetypes[location.archetype + 1], location.index)
         IN IF r.f # "none" THEN Abort(r.f, w)
            ELSE Ret([slots |-> UpdateSwapped(sl, r.e, entity, location.index),
                      free |-> <<entity[1]>> \o w.free,
                      am |-> [w.am EXCEPT !.archetypes[location.archetype + 1] = r.a]],
                     <<"true">>)
    ELSE Ret(w, <<"false">>)

\* World::is_alive(entity)
is_alive(w, entity) == contains_key(w.slots, entity)

\* World::get::<T>(entity)
get(w, entity, T) ==
    IF ~contains_key(w.slots, entity) THEN <<"None">>
    ELSE LET location == w.slots[entity[1]].loc
         IN IF location.archetype >= Len(w.am.archetypes) THEN <<"None">>
            ELSE get_component(w.am.archetypes[location.archetype + 1], location.index, T)

\* Archetype::get_component_mut::<T>(index) followed by a write of v through
\* the reference it returns.
get_component_mut(a, index, T, v) ==
    LET column_index == Position(a.types, T)
    IN IF column_index = 0 THEN [f |-> "none", a |-> a, ret |-> <<"None">>]
       ELSE IF column_index > Len(a.columns) THEN [f |-> "panic", a |-> a, ret |-> <<"Panic">>]
       ELSE LET c == a.columns[column_index]
            IN IF index >= c.len THEN [f |-> "none", a |-> a, ret |-> <<"None">>]
               ELSE IF index >= Len(c.changed_ticks)
               THEN [f |-> "panic", a |-> a, ret |-> <<"Panic">>]
               ELSE IF ~InAllocation(c, index, SizeOf(T))
               THEN [f |-> "ub", a |-> a, ret |-> <<"Panic">>]
               ELSE [f |-> "none",
                     a |-> [a EXCEPT !.columns[column_index] =
                              [WriteWords(c, index, WordsOf(T, v))
                                  EXCEPT !.changed_ticks[index + 1] = a.tick]],
                     ret |-> <<"Some">>]

\* World::get_mut::<T>(entity), and *r = v on the reference returned.
get_mut(w, entity, T, v) ==
    IF ~contains_key(w.slots, entity) THEN Ret(w, <<"None">>)
    ELSE LET location == w.slots[entity[1]].loc
             r == get_component_mut(w.am.archetypes[location.archetype + 1],
                                    location.index, T, v)
         IN IF r.f # "none" THEN Abort(r.f, w)
            ELSE Ret([w EXCEPT !.am.archetypes[location.archetype + 1] = r.a], r.ret)

RECURSIVE CopyAll(_, _, _, _, _)
\* for &type_id in types { to_arch.copy_component_from(to_index, from_arch,
\* from_index, type_id) }
CopyAll(to, to_index, from, from_index, types) ==
    IF types = <<>> THEN Done(to)
    ELSE LET r == copy_component_from(to, to_index, from, from_index, Head(types))
         IN IF r.f # "none" THEN r
            ELSE CopyAll(r.a, to_index, from, from_index, Tail(types))

\* The tail the two move functions share: the rows are written (to_res is
\* the target archetype after push, copies and set), the source row is
\* removed and the locations are updated.
FinishMove(w, entity, from_archetype, to_archetype, from_index, to_index, to_res) ==
    LET r == remove_entity(w.am.archetypes[from_archetype + 1], from_index)
        sl1 == IF contains_key(w.slots, entity)
               THEN [w.slots EXCEPT ![entity[1]].loc =
                        [archetype |-> to_archetype, index |-> to_index]]
               ELSE w.slots
    IN IF to_res.f # "none" THEN Abort(to_res.f, w)
       ELSE IF r.f # "none" THEN Abort(r.f, w)
       ELSE Ret([w EXCEPT !.slots = UpdateSwapped(sl1, r.e, entity, from_index),
                          !.am.archetypes[from_archetype + 1] = r.a,
                          !.am.archetypes[to_archetype + 1] = to_res.a],
                <<"Ok">>)

\* World::move_entity_with_component(entity, from_archetype, to_archetype, c)
move_entity_with_component(w, entity, from_archetype, to_archetype, T, v) ==
    IF ~contains_key(w.slots, entity) THEN Ret(w, EntityNotFound(entity))
    ELSE IF from_archetype >= Len(w.am.archetypes)
    THEN Ret(w, ArchetypeNotFound(from_archetype))
    ELSE IF from_archetype = to_archetype       \* get_pair_mut is None
    THEN Ret(w, ArchetypeNotFound(to_archetype))
    ELSE LET from_index == w.slots[entity[1]].loc.index
             from_arch == w.am.archetypes[from_archetype + 1]
             to_arch == w.am.archetypes[to_archetype + 1]
             to_index == ArchLen(to_arch)
             r1 == CopyAll(push_entity(to_arch, entity), to_index,
                           from_arch, from_index, from_arch.types)
             r2 == IF r1.f # "none" THEN r1 ELSE set_component(r1.a, to_index, T, v)
         IN FinishMove(w, entity, from_archetype, to_archetype, from_index, to_index, r2)

\* World::move_entity(entity, from_archetype, to_archetype)
move_entity(w, entity, from_archetype, to_archetype) ==
    IF ~contains_key(w.slots, entity) THEN Ret(w, EntityNotFound(entity))
    ELSE IF to_archetype >= Len(w.am.archetypes)
    THEN Ret(w, ArchetypeNotFound(to_archetype))
    ELSE IF from_archetype = to_archetype       \* get_pair_mut is None
    THEN Ret(w, ArchetypeNotFound(to_archetype))
    ELSE LET from_index == w.slots[entity[1]].loc.index
             from_arch == w.am.archetypes[from_archetype + 1]
             to_arch == w.am.archetypes[to_archetype + 1]
             to_index == ArchLen(to_arch)
             r1 == CopyAll(push_entity(to_arch, entity), to_index,
                           from_arch, from_index, to_arch.types)
         IN FinishMove(w, entity, from_archetype, to_archetype, from_index, to_index, r1)

\* The columns of the target archetype after insert's initialisation of a
\* target that create_archetype_with_added returned: the source's columns
\* from position to_arch.columns.len() on, then one column for the component.
InsertColumns(from_arch, to_arch, T) ==
    to_arch.columns
    \o [i \in 1..(IF Len(from_arch.columns) > Len(to_arch.columns)
                  THEN Len(from_arch.columns) - Len(to_arch.columns) ELSE 0) |->
          LET col == from_arch.columns[Len(to_arch.columns) + i]
          IN NewColumnRaw(col.item_size, col.drop_fn)]
    \o <<NewColumn(T)>>

\* World::insert::<C>(entity, component)
insert(w, entity, T, v) ==
    IF ~contains_key(w.slots, entity) THEN Ret(w, EntityNotFound(entity))
    ELSE LET location == w.slots[entity[1]].loc
             from_archetype == location.archetype
             from_arch == w.am.archetypes[from_archetype + 1]
         IN IF Contains(from_arch.types, T)
            THEN \* Just update the component
                 LET r == set_component(from_arch, location.index, T, v)
                 IN IF r.f # "none" THEN Abort(r.f, w)
                    ELSE Ret([w EXCEPT !.am.archetypes[from_archetype + 1] = r.a], <<"Ok">>)
            ELSE LET found == find_archetype_with_added(w.am, from_archetype, T)
                     cr == create_archetype_with_added(w.am, from_archetype, T, type_name(T))
                     to_archetype == IF found # -1 THEN found ELSE cr.index
                     am1 == IF found # -1 THEN w.am
                            ELSE [cr.am EXCEPT !.archetypes[to_archetype + 1].columns =
                                     InsertColumns(from_arch, cr.am.archetypes[to_archetype + 1], T)]
                 IN IF found = -1 /\ to_archetype = from_archetype
                    THEN Abort("panic", w)       \* get_pair_mut(..).unwrap()
                    ELSE move_entity_with_component([w EXCEPT !.am = am1], entity,
                                                    from_archetype, to_archetype, T, v)

RECURSIVE RemoveColumns(_, _, _)
\* The columns remove declares in an empty target: for each type of the
\* source but the removed one, a column like the source's column at the
\* type's position (from position i on).
RemoveColumns(from_arch, T, i) ==
    IF i > Len(from_arch.types) THEN <<>>
    ELSE IF from_arch.types[i] # T
    THEN <<NewColumnRaw(from_arch.columns[i].item_size, from_arch.columns[i].drop_fn)>>
         \o RemoveColumns(from_arch, T, i + 1)
    ELSE RemoveColumns(from_arch, T, i + 1)

\* World::remove::<C>(entity)
remove(w, entity, T) ==
    IF ~contains_key(w.slots, entity) THEN Ret(w, EntityNotFound(entity))
    ELSE LET location == w.slots[entity[1]].loc
             from_archetype == location.archetype
             from_arch == w.am.archetypes[from_archetype + 1]
             component == take_component(from_arch, location.index, T)
             found == find_archetype_with_removed(w.am, from_archetype, T)
             cr == create_archetype_with_removed(w.am, from_archetype, T)
             to_archetype == IF found # -1 THEN found ELSE cr.index
             to_arch == cr.am.archetypes[to_archetype + 1]
             am1 == IF found # -1 \/ to_arch.columns # <<>> THEN
                       (IF found # -1 THEN w.am ELSE cr.am)
                    ELSE [cr.am EXCEPT !.archetypes[to_archetype + 1].columns =
                             RemoveColumns(from_arch, T, 1)]
             mv == move_entity([w EXCEPT !.am = am1], entity, from_archetype, to_archetype)
         IN IF component[1] = "Panic" THEN Abort("panic", w)
            ELSE IF component[1] = "None" THEN Ret(w, ComponentNotFound(T))
            ELSE IF found = -1 /\ to_archetype = from_archetype
            THEN Abort("panic", w)               \* get_pair_mut(..).unwrap()
            ELSE IF found = -1 /\ to_arch.columns = <<>>
                    /\ \E i \in 1..Len(from_arch.types) :
                          from_arch.types[i] # T /\ i > Len(from_arch.columns)
            THEN Abort("panic", w)               \* from_arch.columns[col_idx]
            ELSE IF mv.f # "none" \/ mv.ret # <<"Ok">> THEN mv
            ELSE Ret(mv.w, <<"Ok", component[2]>>)

\* The signature of the archetype that world w records for entity e.
SignatureOf(w, e) == w.am.archetypes[w.slots[e[1]].loc.archetype + 1].types

\* World::remove_by_id(entity, type_id): the remove of the command queue.
\* The result of move_entity is discarded (let _ = ..).
remove_by_id(w, entity, T) ==
    IF ~contains_key(w.slots, entity) THEN Ret(w, <<"()">>)
    ELSE LET from_archetype == w.slots[entity[1]].loc.archetype
             to_archetype == find_archetype_with_removed(w.am, from_archetype, T)
             mv == move_entity(w, entity, from_archetype, to_archetype)
         IN IF to_archetype = -1 THEN Ret(w, <<"()">>)
            ELSE IF mv.f # "none" THEN mv
            ELSE Ret(mv.w, <<"()">>)

RECURSIVE DropColumns(_, _)
\* Dropping Archetype.columns: the columns are dropped in order.
DropColumns(columns, i) ==
    IF i > Len(columns) THEN <<>>
    ELSE ColumnDrop(columns[i]) \o DropColumns(columns, i + 1)

RECURSIVE DropArchetypes(_, _)
\* Dropping ArchetypeMap.archetypes: the archetypes are dropped in order.
DropArchetypes(archs, i) ==
    IF i > Len(archs) THEN <<>>
    ELSE DropColumns(archs[i].columns, 1) \o DropArchetypes(archs, i + 1)

\* drop(world): World has no destructor of its own, its fields are dropped;
\* the calls of drop_fn this makes.
world_drop(w) == DropArchetypes(w.am.archetypes, 1)

\* World::tick(): the world's tick advances and every archetype takes it.
world_tick(am, t) ==
    [am EXCEPT !.archetypes = [i \in 1..Len(am.archetypes) |->
                                  [am.archetypes[i] EXCEPT !.tick = t]]]

\* ------------------------------------------------------------------ Query
\* A query type Q is the sequence of its elements, each [kind, T] with kind
\* "ref" for &T, "mut" for &mut T and "opt" for Option<&T>; a sequence of
\* two elements is the tuple (Q1, Q2), a sequence of one is the element.
QueryKinds == {"ref", "mut", "opt"}
QueryTerms == [kind : QueryKinds, T : Types]
Queries == {<<q>> : q \in QueryTerms} \cup {<<q1, q2>> : q1, q2 \in QueryTerms}

\* A match predicate under which Option<&T> needs T as &T does.
MatchesArchetypeAllRequired(Q, types) ==
    \A k \in 1..Len(Q) : Contains(types, Q[k].T)

\* Q::matches_archetype(types): &T and &mut T need T, Option<&T> matches
\* always, a tuple needs all of its elements to match.
matches_archetype(Q, types) ==
    \A k \in 1..Len(Q) : Q[k].kind \in {"ref", "mut"} => Contains(types, Q[k].T)

\* Q::read_types() and Q::write_types(), as sequences in element order.
RECURSIVE read_types(_)
read_types(Q) ==
    IF Q = <<>> THEN <<>>
    ELSE (IF Head(Q).kind \in {"ref", "opt"} THEN <<Head(Q).T>> ELSE <<>>)
         \o read_types(Tail(Q))

RECURSIVE write_types(_)
write_types(Q) ==
    IF Q = <<>> THEN <<>>
    ELSE (IF Head(Q).kind = "mut" THEN <<Head(Q).T>> ELSE <<>>) \o write_types(Tail(Q))

\* A fetch that goes through get_component_mut for every kind of element.
FetchTermBumpsTick(a, index, term) ==
    LET column_index == Position(a.types, term.T)
        found == get_component(a, index, term.T)
        some == [kind |-> term.kind, column |-> column_index, words |-> found[2]]
    IN IF found[1] = "Panic" THEN [f |-> "panic", a |-> a, ret |-> <<>>]
       ELSE IF found[1] = "None"
       THEN IF term.kind = "opt" THEN [f |-> "none", a |-> a, ret |-> [kind |-> "None"]]
            ELSE [f |-> "panic", a |-> a, ret |-> <<>>]
       ELSE IF index >= Len(a.columns[column_index].changed_ticks)
       THEN [f |-> "panic", a |-> a, ret |-> <<>>]
       ELSE [f |-> "none",
             a |-> [a EXCEPT !.columns[column_index].changed_ticks[index + 1] = a.tick],
             ret |-> some]

\* Q::fetch(archetype, index) of one element: the reference it yields,
\* [kind, column, words] for a reference into the column at that position,
\* [kind |-> "None"] for the None of an Option.  &T and &mut T unwrap the
\* Option that get_component / get_component_mut returns; &mut T goes through
\* get_component_mut, which stores the archetype's tick.
FetchTerm(a, index, term) ==
    LET column_index == Position(a.types, term.T)
        found == get_component(a, index, term.T)
        some == [kind |-> term.kind, column |-> column_index, words |-> found[2]]
    IN IF found[1] = "Panic" THEN [f |-> "panic", a |-> a, ret |-> <<>>]
       ELSE IF term.kind = "opt"
       THEN [f |-> "none", a |-> a,
             ret |-> IF found[1] = "None" THEN [kind |-> "None"] ELSE some]
       ELSE IF found[1] = "None" THEN [f |-> "panic", a |-> a, ret |-> <<>>]
       ELSE IF term.kind = "ref" THEN [f |-> "none", a |-> a, ret |-> some]
       ELSE IF index >= Len(a.columns[column_index].changed_ticks)
       THEN [f |-> "panic", a |-> a, ret |-> <<>>]
       ELSE [f |-> "none",
             a |-> [a EXCEPT !.columns[column_index].changed_ticks[index + 1] = a.tick],
             ret |-> some]

RECURSIVE Fetch(_, _, _)
\* Q::fetch(archetype, index): the elements are fetched in order, each from
\* the same archetype.
Fetch(a, index, Q) ==
    IF Q = <<>> THEN [f |-> "none", a |-> a, ret |-> <<>>]
    ELSE LET r1 == FetchTerm(a, index, Head(Q))
             r2 == Fetch(r1.a, index, Tail(Q))
         IN IF r1.f # "none" THEN [f |-> r1.f, a |-> a, ret |-> <<>>]
            ELSE IF r2.f # "none" THEN [f |-> r2.f, a |-> a, ret |-> <<>>]
            ELSE [f |-> "none", a |-> r2.a, ret |-> <<r1.ret>> \o r2.ret]

\* <Changed<T> as QueryFilter>::matches_archetype(types)
changed_matches_archetype(types, T) == Contains(types, T)

\* <Changed<T> as QueryFilter>::matches_component(archetype, index): the
\* filter has no tick of the reader, it compares with 0.
changed_matches_component(archetype, index, T) ==
    component_changed(archetype, index, T, 0)

RECURSIVE QueryIterKeepsRow(_, _, _, _)
\* An iteration that goes to the next archetype without going back to row 0.
QueryIterKeepsRow(w, Q, archetype_index, entity_index) ==
    IF archetype_index >= Len(w.am.archetypes) THEN Ret(w, <<>>)
    ELSE LET archetype == w.am.archetypes[archetype_index + 1]
             item == Fetch(archetype, entity_index, Q)
             rest == QueryIterKeepsRow([w EXCEPT !.am.archetypes[archetype_index + 1] = item.a],
                                       Q, archetype_index, entity_index + 1)
         IN IF ~matches_archetype(Q, archetype.types)
            THEN QueryIterKeepsRow(w, Q, archetype_index + 1, entity_index)
            ELSE IF entity_index >= ArchLen(archetype)
            THEN QueryIterKeepsRow(w, Q, archetype_index + 1, entity_index)
            ELSE IF item.f # "none" THEN Abort(item.f, w)
            ELSE IF rest.f # "none" THEN rest
            ELSE Ret(rest.w,
                     <<[archetype |-> archetype_index, index |-> entity_index,
                        refs |-> item.ret]>> \o rest.ret)

RECURSIVE QueryIterNext(_, _, _, _)
\* for item in world.query::<Q>() {}: QueryIter::next() called until it
\* returns None, from the position (archetype_index, entity_index).  ret is
\* the sequence of the items yielded, each with the archetype and row it was
\* fetched from.
QueryIterNext(w, Q, archetype_index, entity_index) ==
    IF archetype_index >= Len(w.am.archetypes) THEN Ret(w, <<>>)
    ELSE LET archetype == w.am.archetypes[archetype_index + 1]
             item == Fetch(archetype, entity_index, Q)
             rest == QueryIterNext([w EXCEPT !.am.archetypes[archetype_index + 1] = item.a],
                                   Q, archetype_index, entity_index + 1)
         IN IF ~matches_archetype(Q, archetype.types)
            THEN QueryIterNext(w, Q, archetype_index + 1, 0)
            ELSE IF entity_index >= ArchLen(archetype)
            THEN QueryIterNext(w, Q, archetype_index + 1, 0)
            ELSE IF item.f # "none" THEN Abort(item.f, w)
            ELSE IF rest.f # "none" THEN rest
            ELSE Ret(rest.w,
                     <<[archetype |-> archetype_index, index |-> entity_index,
                        refs |-> item.ret]>> \o rest.ret)

\* World::query::<Q>() iterated to the end.
query(w, Q) == QueryIterNext(w, Q, 0, 0)

RECURSIVE SumOfLens(_, _, _)
\* .skip(archetype_index).filter(|a| Q::matches_archetype(a.types()))
\* .map(|a| a.len()).sum() over the archetypes
SumOfLens(w, Q, archetype_index) ==
    IF archetype_index >= Len(w.am.archetypes) THEN 0
    ELSE LET archetype == w.am.archetypes[archetype_index + 1]
         IN (IF matches_archetype(Q, archetype.types) THEN ArchLen(archetype) ELSE 0)
            + SumOfLens(w, Q, archetype_index + 1)

\* QueryIter::size_hint() of an iterator at archetype_index
size_hint(w, Q, archetype_index) ==
    LET remaining == SumOfLens(w, Q, archetype_index)
    IN <<remaining, <<"Some", remaining>>>>

\* World::try_get::<T>(entity): self.get(entity).ok_or(EntityNotFound(entity))
try_get(w, entity, T) ==
    LET r == get(w, entity, T)
    IN IF r = <<"None">> THEN EntityNotFound(entity)
       ELSE IF r[1] = "Some" THEN <<"Ok", r[2]>>
       ELSE r

\* World::try_get_mut::<T>(entity); v is what the caller writes through the
\* reference.
try_get_mut(w, entity, T, v) ==
    IF ~is_alive(w, entity) THEN Ret(w, EntityNotFound(entity))
    ELSE LET r == get_mut(w, entity, T, v)
         IN IF r.f # "none" THEN r
            ELSE IF r.ret = <<"None">> THEN Ret(r.w, ComponentNotFound(T))
            ELSE Ret(r.w, <<"Ok">>)

\* World::entity_info(entity)
entity_info(w, entity) ==
    IF ~contains_key(w.slots, entity) THEN <<"None">>
    ELSE LET location == w.slots[entity[1]].loc
         IN IF location.archetype >= Len(w.am.archetypes) THEN <<"None">>
            ELSE LET archetype == w.am.archetypes[location.archetype + 1]
                 IN <<"Some", [entity |-> entity,
                               archetype_id |-> archetype.id,
                               component_types |-> archetype.type_names]>>

\* --------------------------------------------------------------- Commands
\* enum Command: what Commands::spawn, despawn, insert and remove push.
SpawnCommand(bundle, v) ==
    [op |-> "Spawn", entity |-> <<0, 0>>, T |-> "", bundle |-> bundle, v |-> v]
DespawnCommand(entity) ==
    [op |-> "Despawn", entity |-> entity, T |-> "", bundle |-> <<>>, v |-> 0]
InsertCommand(entity, T, v) ==
    [op |-> "Insert", entity |-> entity, T |-> T, bundle |-> <<>>, v |-> v]
RemoveCommand(entity, T) ==
    [op |-> "Remove", entity |-> entity, T |-> T, bundle |-> <<>>, v |-> 0]

\* A loop body whose Insert closure calls world.insert(..).unwrap().
ApplyCommandUnwrapping(w, command) ==
    IF command.op = "Spawn" THEN spawn(w, command.bundle, command.v)
    ELSE IF command.op = "Despawn" THEN despawn(w, command.entity)
    ELSE IF command.op = "Insert"
    THEN LET r == insert(w, command.entity, command.T, command.v)
         IN IF r.f = "none" /\ r.ret # <<"Ok">> THEN Abort("panic", w) ELSE r
    ELSE remove_by_id(w, command.entity, command.T)

\* match command { .. } of Commands::apply: the closure of Spawn calls
\* world.spawn(bundle), that of Insert world.insert(entity, component).ok().
ApplyCommand(w, command) ==
    IF command.op = "Spawn" THEN spawn(w, command.bundle, command.v)
    ELSE IF command.op = "Despawn" THEN despawn(w, command.entity)
    ELSE IF command.op = "Insert" THEN insert(w, command.entity, command.T, command.v)
    ELSE remove_by_id(w, command.entity, command.T)

RECURSIVE apply(_, _)
\* Commands::apply(world): for command in self.queue.drain(..) { .. }
apply(w, queue) ==
    IF queue = <<>> THEN Ret(w, <<"()">>)
    ELSE LET r == ApplyCommand(w, Head(queue))
         IN IF r.f # "none" THEN Abort(r.f, w)
            ELSE apply(r.w, Tail(queue))

\* -------------------------------------------------------------- Schedules
\* A system is [reads, writes], the sets of the types its reads() and
\* writes() return; systems are numbered from 0 in the order they were added.
SystemKinds == [reads : SUBSET Types, writes : SUBSET Types]

\* The indices in the sequence batch, as a set.
Members(batch) == {batch[k] : k \in 1..Len(batch)}

\* batch_reads and batch_writes: the reads and writes of the systems pushed
\* to the batch so far.
BatchReads(sys, batch) == UNION {sys[idx + 1].reads : idx \in Members(batch)}
BatchWrites(sys, batch) == UNION {sys[idx + 1].writes : idx \in Members(batch)}

\* has_conflict of rebuild_batches and compute_batches (ecs-parallel): a
\* write of the system meets a read or write of the batch, or a read of the
\* system meets a write of the batch.
has_conflict(system, batch_reads, batch_writes) ==
    \/ system.writes \cap (batch_reads \cup batch_writes) # {}
    \/ system.reads \cap batch_writes # {}

RECURSIVE FillBatch(_, _, _, _)
\* for &idx in &remaining_vec { .. }: the systems of remaining_vec from
\* position k on are pushed to the batch unless they conflict with it.
FillBatch(sys, remaining_vec, k, batch) ==
    IF k > Len(remaining_vec) THEN batch
    ELSE LET idx == remaining_vec[k]
         IN IF has_conflict(sys[idx + 1], BatchReads(sys, batch), BatchWrites(sys, batch))
            THEN FillBatch(sys, remaining_vec, k + 1, batch)
            ELSE FillBatch(sys, remaining_vec, k + 1, Append(batch, idx))

\* A pass that pushes its batch and removes nothing from remaining.
PassOutcomesKeepingRemaining(sys, remaining) ==
    {[batch |-> FillBatch(sys, remaining_vec, 1, <<>>), remaining |-> remaining] :
        remaining_vec \in OrdersOf(remaining)}

\* One pass of while !remaining.is_empty() { .. }: remaining is a HashSet,
\* so remaining_vec is the remaining systems in any order, and so is the
\* system that remaining.iter().next() gives when no system was pushed.
\* The batches the pass can push, each with what it leaves in remaining.
PassOutcomes(sys, remaining) ==
    UNION {LET batch == FillBatch(sys, remaining_vec, 1, <<>>)
           IN IF batch # <<>>
              THEN {[batch |-> batch, remaining |-> remaining \ Members(batch)]}
              ELSE {[batch |-> <<idx>>, remaining |-> remaining \ {idx}] :
                       idx \in remaining} :
             remaining_vec \in OrdersOf(remaining)}

RECURSIVE BatchesFrom(_, _)
\* while !remaining.is_empty() { .. }: the set of the batch lists the loop
\* can produce.
BatchesFrom(sys, remaining) ==
    IF remaining = {} THEN {<<>>}
    ELSE UNION {{<<pass.batch>> \o rest : rest \in BatchesFrom(sys, pass.remaining)} :
                  pass \in PassOutcomes(sys, remaining)}

\* StageExecutor::rebuild_batches() (ecs-parallel): the batch lists it can
\* leave in self.batches.
rebuild_batches(sys) == BatchesFrom(sys, 0..(Len(sys) - 1))

\* DependencyGraph::compute_batches() (ecs-parallel): the same loop over the
\* nodes of the graph.
compute_batches(nodes) == BatchesFrom(nodes, 0..(Len(nodes) - 1))

\* A conflict test that only looks at writes against writes.
SystemsConflictOnWritesOnly(a, b) == a.writes \cap b.writes # {}

\* ParallelSchedule::systems_conflict(a, b) (ecs-complete)
systems_conflict(a, b) ==
    \/ a.writes \cap b.writes # {}
    \/ a.reads \cap b.writes # {}
    \/ b.reads \cap a.writes # {}

RECURSIVE GrowBatchIgnoringAssigned(_, _, _, _)
\* A loop that pushes system j without asking whether it is assigned.
GrowBatchIgnoringAssigned(sys, batch, j, assigned) ==
    IF j >= Len(sys) THEN batch
    ELSE IF \E b \in Members(batch) : systems_conflict(sys[b + 1], sys[j + 1])
    THEN GrowBatchIgnoringAssigned(sys, batch, j + 1, assigned)
    ELSE GrowBatchIgnoringAssigned(sys, Append(batch, j), j + 1, assigned \cup {j})

RECURSIVE GrowBatch(_, _, _, _)
\* for j in (i + 1)..self.systems.len() { .. }: system j is pushed to the
\* batch unless it is assigned or conflicts with a system of the batch.
GrowBatch(sys, batch, j, assigned) ==
    IF j >= Len(sys) THEN batch
    ELSE IF j \in assigned
            \/ \E b \in Members(batch) : systems_conflict(sys[b + 1], sys[j + 1])
    THEN GrowBatch(sys, batch, j + 1, assigned)
    ELSE GrowBatch(sys, Append(batch, j), j + 1, assigned \cup {j})

RECURSIVE GroupByConflicts(_, _, _)
\* for i in 0..self.systems.len() { .. } of ParallelSchedule::run
\* (ecs-complete): every system not yet assigned starts a batch.
GroupByConflicts(sys, i, assigned) ==
    IF i >= Len(sys) THEN <<>>
    ELSE IF i \in assigned THEN GroupByConflicts(sys, i + 1, assigned)
    ELSE LET batch == GrowBatch(sys, <<i>>, i + 1, assigned \cup {i})
         IN <<batch>> \o GroupByConflicts(sys, i + 1, assigned \cup Members(batch))

RECURSIVE RunBatches(_)
\* for batch in batches { for idx in batch { self.systems[idx].run(world) } }:
\* the systems run, in order.
RunBatches(batches) ==
    IF batches = <<>> THEN <<>> ELSE Head(batches) \o RunBatches(Tail(batches))

\* enum Stage, in the order of Schedule::new's stages
StageNames == <<"PreUpdate", "Update", "PostUpdate", "Render">>

\* Schedule::add_system(stage, system) (ecs-complete): the system is pushed
\* to the systems of the first entry of that stage.
schedule_add_system(sts, stage, system) ==
    IF Contains(StageNames, stage)
    THEN [sts EXCEPT ![Position(StageNames, stage)] = Append(@, system)]
    ELSE sts

RECURSIVE SystemsByAddition(_, _)
\* The systems of all stages, in the order they were added.
SystemsByAddition(sts, n) ==
    LET found == {<<i, k>> \in (1..Len(sts)) \X (1..n) :
                     k <= Len(sts[i]) /\ sts[i][k].n = n}
    IN IF found = {} THEN <<>>
       ELSE LET ik == CHOOSE ik \in found : TRUE
            IN <<sts[ik[1]][ik[2]]>> \o SystemsByAddition(sts, n + 1)

\* A run that takes the systems in the order they were added.
SystemsAsAdded(sts, i) == IF i = 1 THEN SystemsByAddition(sts, 1) ELSE <<>>

RECURSIVE SystemsInRunOrder(_, _)
\* for (_stage, systems) in &mut self.stages { for system in systems { .. } }
\* of Schedule::run: the systems from stage i on, in the order they run.
SystemsInRunOrder(sts, i) ==
    IF i > Len(sts) THEN <<>> ELSE sts[i] \o SystemsInRunOrder(sts, i + 1)

\* ----------------------------------------------------------------- Events
\* Events::new()
events_new == [events |-> <<>>, start_index |-> 0]

\* Events::send(event)
events_send(ev, event) == [ev EXCEPT !.events = Append(@, event)]

\* Events::clear()
events_clear(ev) == [events |-> <<>>, start_index |-> 0]

\* An update() that marks the events before the last one only.
events_update_but_last(ev) ==
    [ev EXCEPT !.start_index = IF ev.events = <<>> THEN 0 ELSE Len(ev.events) - 1]

\* Events::update()
events_update(ev) == [ev EXCEPT !.start_index = Len(ev.events)]

\* Events::iter(): the items of self.events[self.start_index..], or a panic
\* when start_index is beyond the end.
events_iter(ev) ==
    IF ev.start_index > Len(ev.events) THEN <<"Panic">>
    ELSE <<"Items", SubSeq(ev.events, ev.start_index + 1, Len(ev.events))>>

\* Events::len(): self.events.len() - self.start_index on usize, which
\* overflows when start_index is the greater.
events_len(ev) ==
    IF ev.start_index > Len(ev.events) THEN <<"Overflow">>
    ELSE <<"usize", Len(ev.events) - ev.start_index>>

\* Events::is_empty()
events_is_empty(ev) ==
    IF events_len(ev)[1] # "usize" THEN events_len(ev)
    ELSE <<"bool", events_len(ev)[2] = 0>>

\* ---------------------------------------------------------- specification
\* The world of the current state.
World ==
    [slots |-> slots, free |-> free,
     am |-> [archetypes |-> archetypes, type_map |-> type_map, edges |-> edges]]

\* World::new(), in a build with any TypeId order.
Init ==
    /\ tid \in TidOrders
    /\ slots = <<>>
    /\ free = <<>>
    /\ archetypes = <<>>
    /\ type_map = <<>>
    /\ edges = <<>>
    /\ tick = 0
    /\ status = "ok"
    /\ steps = 0
    /\ shadow = <<>>
    /\ dropped = <<>>
    /\ generations = <<>>
    /\ free_list = <<>>
    /\ next_id = 0
    /\ alloc_status = "ok"
    /\ issued = {}
    /\ allocated = {}
    /\ freed = {}
    /\ reissued = FALSE
    /\ systems = <<>>
    /\ stage_batches = <<>>
    /\ last_run = [by |-> "none", batches |-> <<>>, executed |-> <<>>]
    /\ rebuild = [sys |-> <<>>, remaining |-> {}, batches |-> <<>>, passes |-> 0]
    /\ stages = [i \in 1..Len(StageNames) |-> <<>>]
    /\ ran = <<>>
    /\ events = events_new
    /\ sent = <<>>
    /\ commands = <<>>
    /\ flushed = <<>>

\* What a fault makes of the run.
FaultOutcomes(f) == IF f = "underflow" THEN {"panic", "ub"} ELSE {f}

\* A call with result res takes the world to res.w, or ends the run; sh is
\* the history after a call that returned.
ApplyToWorld(res, sh) ==
    /\ status = "ok"
    /\ steps < MaxSteps
    /\ steps' = steps + 1
    /\ IF res.f = "none"
       THEN /\ slots' = res.w.slots
            /\ free' = res.w.free
            /\ archetypes' = res.w.am.archetypes
            /\ type_map' = res.w.am.type_map
            /\ edges' = res.w.am.edges
            /\ status' = "ok"
            /\ shadow' = sh
       ELSE /\ status' \in FaultOutcomes(res.f)
            /\ UNCHANGED <<slots, free, archetypes, type_map, edges, shadow>>
    /\ UNCHANGED <<tid, tick, dropped>>
    /\ UNCHANGED <<allocVars, schedVars, extraVars>>

\* A call that leaves the command queue alone.
Apply(res, sh) == ApplyToWorld(res, sh) /\ UNCHANGED queueVars

\* The history without entity e.
Forget(sh, e) == [x \in DOMAIN sh \ {e} |-> sh[x]]

Spawn(bundle, v) ==
    /\ SumGen(slots) < MaxSpawns
    /\ LET e == NextKey(slots, free)
       IN Apply(spawn(World, bundle, v),
                (e :> [T \in {bundle[i] : i \in 1..Len(bundle)} |-> v]) @@ shadow)

Despawn(e) ==
    Apply(despawn(World, e),
          Forget(shadow, e))

Insert(e, T, v) ==
    Apply(insert(World, e, T, v),
          IF e \in DOMAIN shadow /\ insert(World, e, T, v).ret = <<"Ok">>
          THEN [shadow EXCEPT ![e] = (T :> v) @@ shadow[e]] ELSE shadow)

Remove(e, T) ==
    Apply(remove(World, e, T),
          IF e \in DOMAIN shadow /\ remove(World, e, T).ret[1] = "Ok"
          THEN [shadow EXCEPT ![e] = [S \in DOMAIN shadow[e] \ {T} |-> shadow[e][S]]]
          ELSE shadow)

GetMut(e, T, v) ==
    Apply(get_mut(World, e, T, v),
          IF e \in DOMAIN shadow /\ T \in DOMAIN shadow[e]
             /\ get_mut(World, e, T, v).ret = <<"Some">>
          THEN [shadow EXCEPT ![e][T] = v] ELSE shadow)

Tick ==
    /\ status = "ok"
    /\ tick < MaxTick
    /\ steps < MaxSteps
    /\ steps' = steps + 1
    /\ tick' = tick + 1
    /\ archetypes' = world_tick(World.am, tick + 1).archetypes
    /\ UNCHANGED <<tid, slots, free, type_map, edges, status, shadow, dropped>>
    /\ UNCHANGED <<allocVars, schedVars, extraVars, queueVars>>

Next ==
    \/ \E bundle \in Bundles, v \in Vals : Spawn(bundle, v)
    \/ \E e \in Handles : Despawn(e)
    \/ \E e \in Handles, T \in Types, v \in Vals : Insert(e, T, v)
    \/ \E e \in Handles, T \in Types : Remove(e, T)
    \/ \E e \in Handles, T \in Types, v \in Vals : GetMut(e, T, v)
    \/ Tick

Spec == Init /\ [][Next]_vars

\* -------------------------------- specification with the command queue
\* world.commands().remove::<T>(e); world.flush_commands(): one Remove
\* command is queued and the queue is applied.
FlushRemove(e, T) ==
    LET r == remove_by_id(World, e, T)
    IN Apply(r,
             IF r.f = "none" /\ e \in DOMAIN shadow
                /\ Contains(SignatureOf(World, e), T) /\ ~Contains(SignatureOf(r.w, e), T)
             THEN [shadow EXCEPT ![e] = [S \in DOMAIN shadow[e] \ {T} |-> shadow[e][S]]]
             ELSE shadow)

NextCmd ==
    \/ Next
    \/ \E e \in Handles, T \in Types : FlushRemove(e, T)

SpecCmd == Init /\ [][NextCmd]_vars

\* ------------------------- specification with deferred commands
\* The history after the command was applied to w with result r.
HistoryAfter(w, sh, command, r) ==
    LET e == command.entity
        T == command.T
    IN IF command.op = "Spawn"
       THEN (NextKey(w.slots, w.free) :>
                [S \in {command.bundle[i] : i \in 1..Len(command.bundle)} |-> command.v])
            @@ sh
       ELSE IF command.op = "Despawn" THEN Forget(sh, e)
       ELSE IF command.op = "Insert"
       THEN IF e \in DOMAIN sh /\ r.ret = <<"Ok">>
            THEN [sh EXCEPT ![e] = (T :> command.v) @@ sh[e]] ELSE sh
       ELSE IF /\ e \in DOMAIN sh
               /\ Contains(SignatureOf(w, e), T) /\ ~Contains(SignatureOf(r.w, e), T)
            THEN [sh EXCEPT ![e] = [S \in DOMAIN sh[e] \ {T} |-> sh[e][S]]]
            ELSE sh

RECURSIVE HistoryAfterAll(_, _, _)
\* The history after Commands::apply has applied the queue to w.
HistoryAfterAll(w, sh, queue) ==
    IF queue = <<>> THEN sh
    ELSE LET r == ApplyCommand(w, Head(queue))
         IN IF r.f # "none" THEN sh
            ELSE HistoryAfterAll(r.w, HistoryAfter(w, sh, Head(queue), r), Tail(queue))

\* self.queue.push(command) of Commands::spawn, despawn, insert and remove
Push(command) ==
    /\ status = "ok"
    /\ steps < MaxSteps
    /\ Len(commands) < MaxQueue
    /\ steps' = steps + 1
    /\ commands' = Append(commands, command)
    /\ UNCHANGED flushed
    /\ UNCHANGED <<tid, slots, free, archetypes, type_map, edges, tick, status, shadow,
                   dropped>>
    /\ UNCHANGED <<allocVars, schedVars, extraVars>>

\* world.commands().spawn(bundle)
CommandsSpawn(bundle, v) == Push(SpawnCommand(bundle, v))

\* world.commands().despawn(entity)
CommandsDespawn(e) == Push(DespawnCommand(e))

\* world.commands().insert(entity, component)
CommandsInsert(e, T, v) == Push(InsertCommand(e, T, v))

\* world.commands().remove::<T>(entity)
CommandsRemove(e, T) == Push(RemoveCommand(e, T))

\* World::flush_commands(): the queue is swapped for an empty one, applied
\* and, drained, put back.
FlushCommands ==
    /\ ApplyToWorld(apply(World, commands), HistoryAfterAll(World, shadow, commands))
    /\ commands' = <<>>
    /\ flushed' = commands

\* Up to MaxCmdSteps calls are made, and flush_commands() at any time.
NextQueue ==
    \/ /\ steps < MaxCmdSteps
       /\ \/ Next
          \/ \E bundle \in Bundles, v \in Vals : CommandsSpawn(bundle, v)
          \/ \E e \in Handles : CommandsDespawn(e)
          \/ \E e \in Handles, T \in Types, v \in Vals : CommandsInsert(e, T, v)
          \/ \E e \in Handles, T \in Types : CommandsRemove(e, T)
    \/ FlushCommands

SpecQueue == Init /\ [][NextQueue]_vars

\* ------------------------------------ specification of the Schedule
\* The systems of this specification: system n, the n-th added, queues the
\* spawn of a Position when it runs.
StageSystems(n) ==
    {[n |-> n, command |-> SpawnCommand(<<"P">>, v)] : v \in Vals}

\* schedule.add_system(stage, system)
ScheduleAddSystem(stage, system) ==
    /\ Len(SystemsInRunOrder(stages, 1)) < MaxSystems
    /\ stages' = schedule_add_system(stages, stage, system)
    /\ UNCHANGED <<worldVars, allocVars, schedVars, queueVars, rebuild, ran, eventVars>>

\* Schedule::run(world): the systems run, each queueing its command, then
\* world.flush_commands() and world.tick().
ScheduleRun ==
    LET order == SystemsInRunOrder(stages, 1)
        queue == commands \o [k \in 1..Len(order) |-> order[k].command]
        res == apply(World, queue)
    IN /\ status = "ok"
       /\ tick < MaxTick
       /\ IF res.f = "none"
          THEN /\ slots' = res.w.slots
               /\ free' = res.w.free
               /\ archetypes' = world_tick(res.w.am, tick + 1).archetypes
               /\ type_map' = res.w.am.type_map
               /\ edges' = res.w.am.edges
               /\ tick' = tick + 1
               /\ status' = "ok"
               /\ shadow' = HistoryAfterAll(World, shadow, queue)
          ELSE /\ status' \in FaultOutcomes(res.f)
               /\ UNCHANGED <<slots, free, archetypes, type_map, edges, tick, shadow>>
       /\ ran' = [k \in 1..Len(order) |-> order[k].n]
       /\ commands' = <<>>
       /\ flushed' = queue
       /\ UNCHANGED <<tid, steps, dropped, allocVars, schedVars, rebuild, stages, eventVars>>

\* An entity is spawned, and a Schedule is filled and run.
NextStages ==
    \/ steps < MaxStageSteps /\ \E bundle \in Bundles, v \in Vals : Spawn(bundle, v)
    \/ \E i \in 1..Len(StageNames) :
          \E system \in StageSystems(Len(SystemsInRunOrder(stages, 1)) + 1) :
              ScheduleAddSystem(StageNames[i], system)
    \/ ScheduleRun

SpecStages == Init /\ [][NextStages]_vars

\* ---------------------------------------------- specification of Events
\* events.send(event)
Send(event) ==
    /\ Len(events.events) < MaxEvents
    /\ events' = events_send(events, event)
    /\ sent' = Append(sent, event)
    /\ UNCHANGED <<worldVars, allocVars, schedVars, queueVars, rebuild, stages, ran>>

\* events.clear()
Clear ==
    /\ events' = events_clear(events)
    /\ sent' = <<>>
    /\ UNCHANGED <<worldVars, allocVars, schedVars, queueVars, rebuild, stages, ran>>

\* events.update()
Update ==
    /\ events' = events_update(events)
    /\ sent' = <<>>
    /\ UNCHANGED <<worldVars, allocVars, schedVars, queueVars, rebuild, stages, ran>>

NextEvents ==
    \/ \E event \in Vals : Send(event)
    \/ Clear
    \/ Update

SpecEvents == Init /\ [][NextEvents]_vars

\* ----------------------------------------- specification with queries
\* for item in world.query::<Q>() {}: the items are only looked at.
QueryAll(Q) == Apply(query(World, Q), shadow)

NextQuery ==
    /\ steps < MaxQuerySteps
    /\ \/ Next
       \/ \E Q \in Queries : QueryAll(Q)

SpecQuery == Init /\ [][NextQuery]_vars

\* --------------------------------------- specification of the schedules
\* One list of systems is given to a StageExecutor and a ParallelSchedule of
\* ecs-parallel and to a ParallelSchedule of ecs-complete.  The systems only
\* declare what they read and write; running one leaves the World alone.

\* schedule.add_system(system): each schedule pushes the system, the
\* StageExecutor rebuilds its batches.
AddSystem(system) ==
    /\ Len(systems) < MaxSystems
    /\ systems' = Append(systems, system)
    /\ stage_batches' \in rebuild_batches(Append(systems, system))
    /\ last_run' = [by |-> "none", batches |-> <<>>, executed |-> <<>>]
    /\ UNCHANGED <<worldVars, allocVars, extraVars, queueVars>>

\* StageExecutor::run(world) (ecs-parallel)
StageRun ==
    /\ last_run' = [by |-> "stage", batches |-> stage_batches,
                    executed |-> RunBatches(stage_batches)]
    /\ UNCHANGED <<systems, stage_batches, worldVars, allocVars, extraVars, queueVars>>

\* ParallelSchedule::run(world) (ecs-parallel)
ParallelRun ==
    /\ \E batches \in compute_batches(systems) :
          last_run' = [by |-> "graph", batches |-> batches,
                       executed |-> RunBatches(batches)]
    /\ UNCHANGED <<systems, stage_batches, worldVars, allocVars, extraVars, queueVars>>

\* ParallelSchedule::run(world) (ecs-complete): the systems run, then
\* world.flush_commands() (nothing is queued) and world.tick().
CompleteRun ==
    /\ tick < MaxTick
    /\ last_run' = [by |-> "complete", batches |-> GroupByConflicts(systems, 0, {}),
                    executed |-> RunBatches(GroupByConflicts(systems, 0, {}))]
    /\ tick' = tick + 1
    /\ archetypes' = world_tick(World.am, tick + 1).archetypes
    /\ UNCHANGED <<tid, slots, free, type_map, edges, status, steps, shadow, dropped>>
    /\ UNCHANGED <<systems, stage_batches, allocVars, extraVars, queueVars>>

NextSched ==
    \/ \E system \in SystemKinds : AddSystem(system)
    \/ StageRun
    \/ ParallelRun
    \/ CompleteRun

\* The schedules only test TypeIds for equality, so one TypeId order stands
\* for all of them.
InitSched == Init /\ tid = [T \in Types |-> IF T = "P" THEN 1 ELSE 2]

SpecSched == InitSched /\ [][NextSched]_vars

\* ------------------------------- specification of one rebuild_batches
\* The lists of up to MaxSystems systems.
SystemLists == UNION {[1..n -> SystemKinds] : n \in 0..MaxSystems}

\* rebuild_batches() is entered with self.systems = sys: self.batches is
\* cleared and remaining is every index.
StartRebuild(sys) ==
    /\ rebuild.sys = <<>>
    /\ sys # <<>>
    /\ rebuild' = [sys |-> sys, remaining |-> 0..(Len(sys) - 1),
                   batches |-> <<>>, passes |-> 0]
    /\ UNCHANGED <<worldVars, allocVars, schedVars, queueVars, stages, ran, eventVars>>

\* One pass of the loop while !remaining.is_empty() { .. }.
RebuildPass ==
    /\ rebuild.remaining # {}
    /\ \E pass \in PassOutcomes(rebuild.sys, rebuild.remaining) :
          rebuild' = [rebuild EXCEPT !.remaining = pass.remaining,
                                     !.batches = Append(@, pass.batch),
                                     !.passes = @ + 1]
    /\ UNCHANGED <<worldVars, allocVars, schedVars, queueVars, stages, ran, eventVars>>

NextRebuild ==
    \/ \E sys \in SystemLists : StartRebuild(sys)
    \/ RebuildPass

\* The loop is not interrupted: a pass that can be made is made.
SpecRebuild == InitSched /\ [][NextRebuild]_vars /\ WF_vars(RebuildPass)

\* ------------------------------ specification with the end of the World
\* drop(world): every column runs its destructor and the World is gone.
DropWorld ==
    /\ status = "ok"
    /\ status' = "dropped"
    /\ dropped' = dropped \o world_drop(World)
    /\ slots' = <<>>
    /\ free' = <<>>
    /\ archetypes' = <<>>
    /\ type_map' = <<>>
    /\ edges' = <<>>
    /\ shadow' = <<>>
    /\ UNCHANGED <<tid, tick, steps>>
    /\ UNCHANGED <<allocVars, schedVars, extraVars, queueVars>>

NextDrop ==
    \/ Next
    \/ DropWorld

SpecDrop == Init /\ [][NextDrop]_vars

\* ------------------------------------- specification of the EntityAllocator
\* The allocator of the current state.
Allocator == [generations |-> generations, free_list |-> free_list, next_id |-> next_id]

\* One more call on the allocator; the World is not involved.
AllocStep ==
    /\ steps < MaxAllocSteps
    /\ steps' = steps + 1
    /\ UNCHANGED <<tid, slots, free, archetypes, type_map, edges, tick, status, shadow,
                   dropped>>
    /\ UNCHANGED <<schedVars, extraVars, queueVars>>

\* let e = allocator.allocate();
Allocate ==
    /\ alloc_status = "ok"
    /\ free_list # <<>> \/ next_id < MaxIds
    /\ LET r == allocate(Allocator)
       IN /\ generations' = r.al.generations
          /\ free_list' = r.al.free_list
          /\ next_id' = r.al.next_id
          /\ issued' = issued \cup {r.ret}
          /\ allocated' = allocated \cup {r.ret}
          /\ reissued' = (reissued \/ r.ret \in issued)
    /\ UNCHANGED <<alloc_status, freed>>
    /\ AllocStep

\* allocator.free(e), e a handle that allocate has returned.
Free(e) ==
    /\ alloc_status = "ok"
    /\ LET r == allocator_free(Allocator, e)
       IN \/ /\ r.f = "overflow"          \* overflow checks on: the add panics
             /\ alloc_status' = "panic"
             /\ UNCHANGED <<generations, free_list, next_id, issued, allocated,
                            freed, reissued>>
          \/ /\ generations' = r.al.generations
             /\ free_list' = r.al.free_list
             /\ next_id' = r.al.next_id
             /\ allocated' = IF r.ret THEN allocated \ {e} ELSE allocated
             /\ freed' = IF r.ret THEN freed \cup {e} ELSE freed
             /\ UNCHANGED <<alloc_status, issued, reissued>>
    /\ AllocStep

NextAlloc ==
    \/ Allocate
    \/ \E e \in issued : Free(e)

SpecAlloc == Init /\ [][NextAlloc]_vars

\* -------------------------------------------------------------- properties
\* The entities alive in the current state, by the history: spawned and not
\* despawned since.
Live == DOMAIN shadow

\* C1: every live entity e has a recorded location (a, i) with a an
\* archetype of the world, i < len(a) and a.entities[i] = e; so the row
\* recorded for an entity that a swap-remove moved is the row it moved to.
C1_LocationOfEveryLiveEntity ==
    \A e \in Live :
        LET location == slots[e[1]].loc
        IN /\ location.archetype < Len(archetypes)
           /\ location.index < ArchLen(archetypes[location.archetype + 1])
           /\ archetypes[location.archetype + 1].entities[location.index + 1] = e

\* C2: for every live entity e and every component type T it has,
\* get::<T>(e) is Some(v), v the value last written for (e, T) by spawn,
\* insert or get_mut.
C2_GetReturnsLastWritten ==
    \A e \in Live :
        \A T \in DOMAIN shadow[e] :
            get(World, e, T) = <<"Some", WordsOf(T, shadow[e][T])>>

RECURSIVE InsertEach(_, _, _, _)
\* for &entity in &entities { world.insert(entity, component).unwrap() }:
\* the result of the first call that did not return Ok, else of the last.
InsertEach(w, entities, T, v) ==
    IF entities = <<>> THEN Ret(w, <<"Ok">>)
    ELSE LET r == insert(w, Head(entities), T, v)
         IN IF r.f # "none" \/ r.ret # <<"Ok">> THEN r
            ELSE InsertEach(r.w, Tail(entities), T, v)

\* The entities of a world in which every call so far was a spawn, in spawn
\* order.
SpawnOrder == [i \in 1..Len(slots) |-> <<i, 1>>]

\* N >= 1 entities were spawned with the bundle (P,), and nothing else
\* happened.
OnlySpawnedP ==
    /\ status = "ok"
    /\ steps >= 1
    /\ steps = Len(slots)
    /\ Len(archetypes) = 1
    /\ archetypes[1].types = <<"P">>

\* C3: after N >= 1 spawns of (P,), insert::<H>(e, v) on each entity in
\* spawn order returns Ok every time without panicking, and afterwards
\* get::<P>(e) and get::<H>(e) are Some for each of the N entities.
C3_InsertOnEachSpawnedEntity ==
    OnlySpawnedP =>
        \A v \in Vals :
            LET r == InsertEach(World, SpawnOrder, "H", v)
            IN /\ r.f = "none"
               /\ r.ret = <<"Ok">>
               /\ \A i \in 1..Len(SpawnOrder) :
                     /\ get(r.w, SpawnOrder[i], "P")[1] = "Some"
                     /\ get(r.w, SpawnOrder[i], "H")[1] = "Some"

\* C4: for a handle e that is not alive, also when its slot has been given
\* to a later entity, get::<T>(e) and get_mut::<T>(e) are None,
\* insert::<T>(e, v) and remove::<T>(e) are Err(EntityNotFound(e)), and the
\* world after each call is the world before it.
C4_DeadHandleIsRejected ==
    \A e \in Handles \ Live :
        \A T \in Types :
            /\ get(World, e, T) = <<"None">>
            /\ remove(World, e, T) = Ret(World, EntityNotFound(e))
            /\ \A v \in Vals :
                  /\ get_mut(World, e, T, v) = Ret(World, <<"None">>)
                  /\ insert(World, e, T, v) = Ret(World, EntityNotFound(e))

\* A despawned handle e whose slot holds a later, live entity that has a
\* component: an insert on e is refused where the same insert on the later
\* entity is accepted.
C4_RecycledHandle ==
    /\ status = "ok"
    /\ \E e \in Handles \ Live :
          LET later == <<e[1], slots[e[1]].gen>>
          IN /\ later \in Live
             /\ later # e
             /\ \E T \in Types : get(World, later, T)[1] = "Some"
             /\ \E T \in Types, v \in Vals :
                   /\ insert(World, e, T, v).ret = EntityNotFound(e)
                   /\ insert(World, later, T, v).ret = <<"Ok">>

\* C5: for a live entity e that lacks T, insert::<T>(e, v) returns Ok and
\* the remove::<T>(e) after it returns Ok(v); afterwards e is in an
\* archetype with the signature it had before, and get of every other
\* component type gives what it gave before the insert.
C5_InsertThenRemove ==
    \A e \in Live :
        \A T \in Types \ DOMAIN shadow[e] :
            \A v \in Vals :
                LET r1 == insert(World, e, T, v)
                    r2 == remove(r1.w, e, T)
                IN /\ r1.f = "none"
                   /\ r1.ret = <<"Ok">>
                   /\ r2.f = "none"
                   /\ r2.ret = <<"Ok", WordsOf(T, v)>>
                   /\ SignatureOf(r2.w, e) = SignatureOf(World, e)
                   /\ \A S \in Types \ {T} : get(r2.w, e, S) = get(World, e, S)

\* C6: every column of every archetype has len = entities.len(), and its
\* changed_ticks has that length too.
C6_ColumnLengths ==
    \A a \in 1..Len(archetypes) :
        \A c \in 1..Len(archetypes[a].columns) :
            /\ archetypes[a].columns[c].len = ArchLen(archetypes[a])
            /\ Len(archetypes[a].columns[c].changed_ticks) = ArchLen(archetypes[a])

\* C7: in every archetype, columns[i] has the item_size and the drop_fn of
\* the component type signature[i].
C7_ColumnsAlignedWithSignature ==
    \A a \in 1..Len(archetypes) :
        \A i \in DOMAIN archetypes[a].columns \cap DOMAIN archetypes[a].types :
            /\ archetypes[a].columns[i].item_size = SizeOf(archetypes[a].types[i])
            /\ archetypes[a].columns[i].drop_fn = archetypes[a].types[i]

\* C8: every archetype has as many columns as its signature has types.
C8_OneColumnPerType ==
    \A a \in 1..Len(archetypes) :
        Len(archetypes[a].columns) = Len(archetypes[a].types)

\* The rows <<archetype, row>> of world w, and those of them that hold
\* entity e.
Rows(w) ==
    {r \in (1..Len(w.am.archetypes)) \X (1..MaxSpawns) :
        r[2] <= ArchLen(w.am.archetypes[r[1]])}
RowsOf(w, e) == {r \in Rows(w) : w.am.archetypes[r[1]].entities[r[2]] = e}

\* The len of archetype number a of world w; 0 for one not created yet.
LenOfArchetype(w, a) ==
    IF a < Len(w.am.archetypes) THEN ArchLen(w.am.archetypes[a + 1]) ELSE 0

\* C9: each live entity is in exactly one row, every row holds a live
\* entity, and so the archetype lengths add up to the number of live
\* entities; a spawn and the despawn of the spawned entity leave the
\* archetype's len as it was; a despawn that returns leaves the rows of
\* every other entity in place.
C9_RowsAreTheLiveEntities ==
    /\ \A e \in Live : Cardinality(RowsOf(World, e)) = 1
    /\ \A r \in Rows(World) : archetypes[r[1]].entities[r[2]] \in Live
    /\ Cardinality(Rows(World)) = Cardinality(Live)
    /\ \A bundle \in Bundles, v \in Vals :
          LET r1 == spawn(World, bundle, v)
              e == r1.ret[2]
              a == r1.w.slots[e[1]].loc.archetype
              r2 == despawn(r1.w, e)
          IN r1.f = "none" =>
                /\ r2.f = "none"
                /\ LenOfArchetype(r2.w, a) = LenOfArchetype(World, a)
    /\ \A e \in Live :
          LET r == despawn(World, e)
          IN r.f = "none" =>
                \A x \in Live \ {e} :
                    Cardinality(RowsOf(r.w, x)) = Cardinality(RowsOf(World, x))

\* C10: despawn(e) of a live e returns true and e is not alive afterwards;
\* despawn(e) of any other handle returns false and leaves the world as it
\* was (no version advanced, free list, locations and rows untouched).
C10_DespawnReturnsWhetherAlive ==
    \A e \in Handles :
        LET r == despawn(World, e)
        IN IF e \in Live
           THEN /\ r.f = "none"
                /\ r.ret = <<"true">>
                /\ ~is_alive(r.w, e)
           ELSE r = Ret(World, <<"false">>)

\* C11: a handle for which free has returned true is not alive in any later
\* state of the allocator, however often its id has been recycled since.
C11_FreedHandleStaysDead ==
    \A e \in freed : ~allocator_is_alive(Allocator, e)

\* C12: allocate has never returned a handle twice; the handle allocated
\* for an id carries a generation greater than every other generation issued
\* for that id; the free list holds no id twice and no id of an allocated
\* handle; two allocated handles never share an id.
C12_AllocateReturnsFreshHandles ==
    /\ ~reissued
    /\ \A a \in allocated :
          \A b \in issued \ {a} : b.id = a.id => b.generation < a.generation
    /\ \A i, j \in 1..Len(free_list) : i # j => free_list[i] # free_list[j]
    /\ \A a \in allocated : ~Contains(free_list, a.id)
    /\ \A a, b \in allocated : a # b => a.id # b.id

\* C13: remove::<T>(e) on a live entity e returns Err(ComponentNotFound)
\* exactly when the signature of e's archetype does not contain T, and then
\* the world after the call is the world before it.
C13_RemoveOfAbsentComponent ==
    \A e \in Live :
        \A T \in Types :
            LET r == remove(World, e, T)
            IN IF Contains(SignatureOf(World, e), T)
               THEN r.ret # ComponentNotFound(T)
               ELSE r = Ret(World, ComponentNotFound(T))

\* The set of types of a signature.
TypeSet(types) == {types[i] : i \in 1..Len(types)}

\* Every cached edge leads to the archetype with the signature it stands
\* for.
EdgesAreRight ==
    \A k \in DOMAIN edges :
        LET from_types == TypeSet(archetypes[k[1] + 1].types)
            to_types == TypeSet(archetypes[edges[k] + 1].types)
        IN IF k[3] THEN k[2] \notin from_types /\ to_types = from_types \cup {k[2]}
                   ELSE k[2] \in from_types /\ to_types = from_types \ {k[2]}

\* In a step, the signature of the archetype of every entity that stays
\* alive changes by the types the call gave it or took from it: plus T for
\* an insert::<T> that returned Ok, minus T for a remove::<T> that returned
\* Ok, and not at all otherwise.
MigrationStep ==
    \A e \in Live \cap Live' :
        TypeSet(SignatureOf(World, e))' =
            (TypeSet(SignatureOf(World, e)) \cup (DOMAIN shadow'[e] \ DOMAIN shadow[e]))
                \ (DOMAIN shadow[e] \ DOMAIN shadow'[e])

\* C14: every cached edge (from, T, add) -> to has sig(to) = sig(from) plus
\* T and every edge (from, T, remove) -> to has sig(to) = sig(from) minus T;
\* insert::<T> moves e to an archetype with the signature sig(from) plus T
\* and remove::<T> to one with sig(from) minus T, whether the target came
\* from a cached edge or was created on the spot.
C14_MigrationTargetSignature == [](EdgesAreRight) /\ [][MigrationStep]_vars

\* An add edge and a remove edge are cached, and a live entity sits where
\* its next insert and its next remove both resolve the target through a
\* cached edge and return Ok.
C14_CachedEdgesInUse ==
    /\ status = "ok"
    /\ \E e \in Live :
          \E T1, T2 \in Types :
              LET a == slots[e[1]].loc.archetype
              IN /\ <<a, T1, TRUE>> \in DOMAIN edges
                 /\ <<a, T2, FALSE>> \in DOMAIN edges
                 /\ \E v \in Vals : insert(World, e, T1, v).ret = <<"Ok">>
                 /\ remove(World, e, T2).ret[1] = "Ok"

\* C15: in every state, with the edge (archetype(e), T, remove) cached or
\* not, removing a component T that a live entity e has leaves e without T
\* and with its other components as they were, both for World::remove and
\* for a Remove command applied by flush_commands.
C15_EdgesAreOnlyACache ==
    \A e \in Live :
        \A T \in TypeSet(SignatureOf(World, e)) :
            /\ LET r == remove(World, e, T)
               IN r.f = "none" =>
                     /\ r.ret[1] = "Ok"
                     /\ get(r.w, e, T) = <<"None">>
                     /\ \A S \in Types \ {T} : get(r.w, e, S) = get(World, e, S)
            /\ LET r == remove_by_id(World, e, T)
               IN r.f = "none" =>
                     /\ get(r.w, e, T) = <<"None">>
                     /\ \A S \in Types \ {T} : get(r.w, e, S) = get(World, e, S)

\* Every order of one set of types gets one index, signatures are unique,
\* the type_map finds each archetype by its sorted signature, and the id of
\* an archetype is its index.
ArchetypesAreDeduplicated ==
    /\ \A S \in SUBSET Types :
          \A p, q \in OrdersOf(S) :
              get_or_create(World.am, p, type_names(p)).index
                  = get_or_create(World.am, q, type_names(q)).index
    /\ \A i, j \in 1..Len(archetypes) :
          i # j => TypeSet(archetypes[i].types) # TypeSet(archetypes[j].types)
    /\ \A i \in 1..Len(archetypes) :
          /\ archetypes[i].id = i - 1
          /\ archetypes[i].types = SortBy(archetypes[i].types, tid)
          /\ archetypes[i].types \in DOMAIN type_map
          /\ type_map[archetypes[i].types] = i - 1

\* The archetype vector only grows and an index keeps its signature.
ArchetypesOnlyGrow ==
    /\ Len(archetypes') >= Len(archetypes)
    /\ \A i \in 1..Len(archetypes) : archetypes'[i].types = archetypes[i].types

\* C16: get_or_create returns one index for every permutation of one set of
\* types, no two archetypes have the same signature, the archetype vector
\* only grows with every index keeping its signature, and the id of each
\* archetype is its index.
C16_DeduplicatedBySortedSignature ==
    [](ArchetypesAreDeduplicated) /\ [][ArchetypesOnlyGrow]_vars

\* Two entities are in one archetype of two types, which get_or_create
\* finds again under the unsorted order of its signature.
C16_SecondBundleFindsArchetype ==
    /\ status = "ok"
    /\ \E i \in 1..Len(archetypes) :
          LET types == archetypes[i].types
          IN /\ Len(types) = 2
             /\ Len(archetypes[i].entities) = 2
             /\ get_or_create(World.am, <<types[2], types[1]>>,
                              <<types[2], types[1]>>) = [am |-> World.am, index |-> i - 1]

\* C17: insert::<T>(e, v) on a live entity e that has T returns Ok;
\* afterwards get::<T>(e) is v, the location of e is what it was, there is
\* no new archetype or edge, every archetype has the entities it had, and
\* every other component of e and of the other live entities reads as before.
C17_InsertOverwritesInPlace ==
    \A e \in Live :
        \A T \in TypeSet(SignatureOf(World, e)) :
            \A v \in Vals :
                LET r == insert(World, e, T, v)
                IN /\ r.f = "none"
                   /\ r.ret = <<"Ok">>
                   /\ get(r.w, e, T) = <<"Some", WordsOf(T, v)>>
                   /\ r.w.slots = slots
                   /\ r.w.free = free
                   /\ r.w.am.edges = edges
                   /\ r.w.am.type_map = type_map
                   /\ Len(r.w.am.archetypes) = Len(archetypes)
                   /\ \A i \in 1..Len(archetypes) :
                         r.w.am.archetypes[i].entities = archetypes[i].entities
                   /\ \A e2 \in Live :
                         \A S \in Types :
                             <<e2, S>> # <<e, T>> => get(r.w, e2, S) = get(World, e2, S)

\* C18: remove::<T>(e) on a live entity e whose only component is T returns
\* Ok with the value last written; afterwards e is alive, get::<T>(e) is
\* None and the location of e is a row of the archetype with the empty
\* signature that holds e.
C18_RemoveOfOnlyComponent ==
    \A e \in Live :
        \A T \in Types :
            SignatureOf(World, e) = <<T>> =>
                LET r == remove(World, e, T)
                    location == r.w.slots[e[1]].loc
                    to_arch == r.w.am.archetypes[location.archetype + 1]
                IN /\ r.f = "none"
                   /\ r.ret = <<"Ok", WordsOf(T, shadow[e][T])>>
                   /\ is_alive(r.w, e)
                   /\ get(r.w, e, T) = <<"None">>
                   /\ to_arch.types = <<>>
                   /\ location.index < Len(to_arch.entities)
                   /\ to_arch.entities[location.index + 1] = e

\* A despawn of a live entity e calls drop_fn once on each component value
\* of e's row and on nothing else.
DespawnDestroysRow ==
    \A e \in Live \ Live' :
        status' # "dropped" =>
            /\ Len(dropped') = Len(dropped) + Cardinality(DOMAIN shadow[e])
            /\ SubSeq(dropped', 1, Len(dropped)) = dropped
            /\ \A T \in DOMAIN shadow[e] :
                  \E i \in (Len(dropped) + 1)..Len(dropped') :
                      /\ dropped'[i].drop_fn = T
                      /\ get(World, e, T) = <<"Some", dropped'[i].words>>

\* An insert or remove that moves e to another archetype calls no drop_fn.
MigrationLeavesSource ==
    \A e \in Live \cap Live' :
        DOMAIN shadow'[e] # DOMAIN shadow[e] => dropped' = dropped

\* C19: despawn(e) of a live entity runs drop_fn exactly once on each
\* component value of e's row, and the source row of a migration by insert
\* or remove is not destructed.
C19_DespawnDestroysComponents ==
    [][DespawnDestroysRow /\ MigrationLeavesSource]_vars

\* The slots the destructors of the columns of world w visit:
\* <<archetype, column, row>>, all 1-based.
VisitedSlots(w) ==
    {s \in UNION {{<<a, c, r>> : c \in 1..Len(w.am.archetypes[a].columns),
                                r \in 1..Len(w.am.archetypes[a].entities)} :
                     a \in 1..Len(w.am.archetypes)} :
        LET column == w.am.archetypes[s[1]].columns[s[2]]
        IN column.capacity > 0 /\ s[3] <= column.len}

\* C20: when the World is dropped after any sequence of spawn, despawn,
\* insert and remove, every call of drop_fn is on a fully constructed value
\* of the column's type, and no value is destroyed twice: no two visited
\* slots are the same component of the same entity.
C20_DestructorVisitsLiveValues ==
    status = "ok" =>
        /\ \A i \in 1..Len(world_drop(World)) :
              LET call == world_drop(World)[i]
              IN \E v \in Vals : call.words = WordsOf(call.drop_fn, v)
        /\ \A s, t \in VisitedSlots(World) :
              (/\ s # t
               /\ s[1] = t[1]
               /\ s[3] = t[3])
                  => archetypes[s[1]].columns[s[2]].drop_fn
                         # archetypes[t[1]].columns[t[2]].drop_fn

\* The changed ticks stored in the columns of world w.
StoredTicks(w) ==
    UNION {UNION {{c.changed_ticks[r] : r \in 1..Len(c.changed_ticks)} :
                     c \in {w.am.archetypes[a].columns[i] :
                               i \in 1..Len(w.am.archetypes[a].columns)}} :
              a \in 1..Len(w.am.archetypes)}

\* Whether world w has a changed tick for component T at the location it
\* records for entity e.
HasChangedTick(w, e, T) ==
    LET location == w.slots[e[1]].loc
        a == w.am.archetypes[location.archetype + 1]
        column_index == Position(a.types, T)
    IN /\ column_index > 0
       /\ column_index <= Len(a.columns)
       /\ location.index < Len(a.columns[column_index].changed_ticks)

\* The changed tick world w stores for component T of entity e.
ChangedTickOf(w, e, T) ==
    LET location == w.slots[e[1]].loc
        a == w.am.archetypes[location.archetype + 1]
    IN a.columns[Position(a.types, T)].changed_ticks[location.index + 1]

\* The world after World::tick().
AfterTick(w) == [w EXCEPT !.am = world_tick(w.am, tick + 1)]

\* The write res, made after a tick(), stored for component T of entity e a
\* changed tick greater than every changed tick stored before the tick().
StoresLaterTick(res, e, T) ==
    (res.f = "none" /\ HasChangedTick(res.w, e, T)) =>
        \A t \in StoredTicks(World) : ChangedTickOf(res.w, e, T) > t

\* C21: a spawn, insert or get_mut that follows World::tick() stores a
\* changed tick strictly greater than every changed tick stored before the
\* tick(), whether the archetype it lands in existed before the tick() or
\* is created by the write.
C21_WritesAfterTickAreLater ==
    status = "ok" =>
        /\ \A bundle \in Bundles :
              \A v \in Vals :
                  LET res == spawn(AfterTick(World), bundle, v)
                  IN \A i \in 1..Len(bundle) :
                         StoresLaterTick(res, NextKey(slots, free), bundle[i])
        /\ \A e \in Live :
              \A T \in Types :
                  \A v \in Vals :
                      /\ LET res == insert(AfterTick(World), e, T, v)
                         IN res.ret = <<"Ok">> => StoresLaterTick(res, e, T)
                      /\ LET res == get_mut(AfterTick(World), e, T, v)
                         IN res.ret = <<"Some">> => StoresLaterTick(res, e, T)

\* World w stores for component T of entity e the changed tick t.
StoresTick(w, e, T, t) == HasChangedTick(w, e, T) /\ ChangedTickOf(w, e, T) = t

\* The call res left the changed ticks of the components of e other than T
\* as they were.
CarriesTicks(res, e, T) ==
    \A S \in DOMAIN shadow[e] \ {T} :
        /\ HasChangedTick(World, e, S)
        /\ StoresTick(res.w, e, S, ChangedTickOf(World, e, S))

\* C22: a write of (e, T) by spawn, insert or get_mut stores the current
\* world tick as the changed tick of (e, T); a migration of e and a
\* swap-remove that relocates e's row carry the changed ticks of e's
\* components unchanged; and component_changed::<T>(row(e), s) is true
\* exactly when the stored tick is greater than s.
C22_ChangedTickIsTickOfLastWrite ==
    status = "ok" =>
        /\ \A bundle \in Bundles :
              \A v \in Vals :
                  LET res == spawn(World, bundle, v)
                  IN res.f = "none" =>
                        \A i \in 1..Len(bundle) :
                            StoresTick(res.w, NextKey(slots, free), bundle[i], tick)
        /\ \A e \in Live :
              /\ \A T \in Types :
                    /\ \A v \in Vals :
                          /\ LET res == insert(World, e, T, v)
                             IN res.ret = <<"Ok">> =>
                                   StoresTick(res.w, e, T, tick) /\ CarriesTicks(res, e, T)
                          /\ LET res == get_mut(World, e, T, v)
                             IN res.ret = <<"Some">> =>
                                   StoresTick(res.w, e, T, tick) /\ CarriesTicks(res, e, T)
                    /\ LET res == remove(World, e, T)
                       IN res.ret[1] = "Ok" => CarriesTicks(res, e, T)
              /\ LET res == despawn(World, e)
                 IN res.f = "none" =>
                       \A e2 \in Live \ {e} : \A T \in Types : CarriesTicks(res, e2, "none")
              /\ \A T \in DOMAIN shadow[e] :
                    \A since_tick \in 0..MaxTick :
                        LET location == slots[e[1]].loc
                        IN /\ HasChangedTick(World, e, T)
                           /\ component_changed(archetypes[location.archetype + 1],
                                                location.index, T, since_tick)
                                  = IF ChangedTickOf(World, e, T) > since_tick
                                    THEN <<"true">> ELSE <<"false">>

RECURSIVE RowsInOrder(_, _, _)
\* The rows of the archetypes of w from archetype_index on whose signature
\* matches Q: archetypes in creation order, rows in increasing order.
RowsInOrder(w, Q, archetype_index) ==
    IF archetype_index >= Len(w.am.archetypes) THEN <<>>
    ELSE LET archetype == w.am.archetypes[archetype_index + 1]
         IN (IF matches_archetype(Q, archetype.types)
             THEN [i \in 1..ArchLen(archetype) |->
                      [archetype |-> archetype_index, index |-> i - 1]]
             ELSE <<>>)
            \o RowsInOrder(w, Q, archetype_index + 1)

\* C23: iterating World::query::<Q>() ends and yields exactly one item for
\* each row of each archetype whose signature matches Q, archetypes in
\* creation order and rows in increasing order, and nothing else.
C23_QueryYieldsEveryMatchingRow ==
    status = "ok" =>
        \A Q \in Queries :
            LET res == query(World, Q)
            IN /\ res.f = "none"
               /\ [i \in 1..Len(res.ret) |->
                      [archetype |-> res.ret[i].archetype, index |-> res.ret[i].index]]
                     = RowsInOrder(World, Q, 0)

\* A query yields the two rows of one archetype while another archetype
\* that matches it is empty and an archetype that does not match has a row.
C23_QuerySkipsEmptyAndUnmatched ==
    /\ status = "ok"
    /\ \E Q \in Queries :
          /\ query(World, Q).f = "none"
          /\ Len(query(World, Q).ret) = 2
          /\ query(World, Q).ret[1].archetype = query(World, Q).ret[2].archetype
          /\ \E i \in 1..Len(archetypes) :
                matches_archetype(Q, archetypes[i].types) /\ ArchLen(archetypes[i]) = 0
          /\ \E i \in 1..Len(archetypes) :
                ~matches_archetype(Q, archetypes[i].types) /\ ArchLen(archetypes[i]) > 0

\* The queries whose write set is empty.
ReadOnlyQueries == {Q \in Queries : write_types(Q) = <<>>}

\* C24: iterating a query whose write set is empty to the end leaves the
\* world as it was: every changed_ticks entry, every component value, every
\* entity location and every archetype length.
C24_ReadOnlyQueryChangesNothing ==
    status = "ok" =>
        \A Q \in ReadOnlyQueries :
            LET res == query(World, Q)
            IN res.f = "none" /\ res.w = World

\* A query with an empty write set yields a row whose changed tick is older
\* than the tick of its archetype.
C24_ReadOfRowWrittenBeforeTick ==
    /\ status = "ok"
    /\ \E Q \in ReadOnlyQueries :
          \E i \in 1..Len(query(World, Q).ret) :
              LET item == query(World, Q).ret[i]
                  archetype == archetypes[item.archetype + 1]
              IN /\ item.refs[1].kind # "None"
                 /\ archetype.columns[item.refs[1].column].changed_ticks[item.index + 1]
                        < archetype.tick

\* The entity of the row an item was fetched from.
EntityOfItem(item) == archetypes[item.archetype + 1].entities[item.index + 1]

C26_ChangedFilterPassesNewerRows ==
    status = "ok" =>
        \A T \in Types :
            \A seen_tick \in 0..MaxTick :
                \A a \in 1..Len(archetypes) :
                    \A index \in 0..(ArchLen(archetypes[a]) - 1) :
                        LET column_index == Position(archetypes[a].types, T)
                        IN (/\ changed_matches_archetype(archetypes[a].types, T)
                            /\ changed_matches_component(archetypes[a], index, T) = <<"true">>)
                           <=> (/\ column_index > 0
                                /\ column_index <= Len(archetypes[a].columns)
                                /\ index < Len(archetypes[a].columns[column_index].changed_ticks)
                                /\ archetypes[a].columns[column_index].changed_ticks[index + 1]
                                       > seen_tick)

\* C27: no item that a query yields holds two references to the same
\* component of the same row of which one is mutable; a tuple query that
\* names a type for writing and again for reading or writing yields no
\* such item because it is rejected before anything is fetched.
C27_NoAliasedMutableReference ==
    status = "ok" =>
        \A Q \in Queries :
            LET res == query(World, Q)
            IN \A n \in 1..Len(res.ret) :
                   \A i, j \in 1..Len(res.ret[n].refs) :
                       LET r1 == res.ret[n].refs[i]
                           r2 == res.ret[n].refs[j]
                       IN (/\ i # j
                           /\ r1.kind = "mut"
                           /\ r2.kind # "None")
                              => r1.column # r2.column

\* The systems A and B may run at the same time: no write of one meets a
\* read or a write of the other.
MayShareBatch(A, B) ==
    /\ A.writes \cap B.reads = {}
    /\ A.writes \cap B.writes = {}
    /\ A.reads \cap B.writes = {}

\* No two distinct systems of one batch of the list batches conflict.
ConflictFree(batches) ==
    \A b \in 1..Len(batches) :
        \A i, j \in 1..Len(batches[b]) :
            i # j => MayShareBatch(systems[batches[b][i] + 1], systems[batches[b][j] + 1])

\* C28: in every batch that rebuild_batches, compute_batches (ecs-parallel)
\* and ParallelSchedule::run (ecs-complete) produce, for any two distinct
\* systems A and B of the batch, writes(A) is disjoint from reads(B) and
\* from writes(B), and reads(A) is disjoint from writes(B).
C28_BatchesAreConflictFree ==
    /\ ConflictFree(stage_batches)
    /\ ConflictFree(last_run.batches)

\* Three systems ran under ecs-complete: the second writes what the first
\* reads and has a batch of its own, the third shares the first one's batch.
C28_ReaderAndWriterAreSeparated ==
    /\ Len(systems) = 3
    /\ systems[1].reads \cap systems[2].writes # {}
    /\ systems[1].writes \cap systems[2].writes = {}
    /\ last_run.by = "complete"
    /\ last_run.batches = <<(<<0, 2>>), (<<1>>)>>
    /\ stage_batches \in {<<(<<0, 2>>), (<<1>>)>>, <<(<<2, 0>>), (<<1>>)>>}

\* How often the system idx occurs in the batches.
Occurrences(batches, idx) ==
    Cardinality({bk \in {<<b, k>> : b \in 1..Len(batches), k \in 1..MaxSystems} :
                    /\ bk[2] <= Len(batches[bk[1]])
                    /\ batches[bk[1]][bk[2]] = idx})

\* The batches are a partition of the systems 0..n-1 into non-empty batches.
IsPartition(batches, n) ==
    /\ \A b \in 1..Len(batches) :
           /\ batches[b] # <<>>
           /\ \A k \in 1..Len(batches[b]) : batches[b][k] \in 0..(n - 1)
    /\ \A idx \in 0..(n - 1) : Occurrences(batches, idx) = 1

\* C29: the batches are a partition of the systems added so far: every
\* system index is in exactly one batch and no batch is empty; one run of
\* the schedule executes every system exactly once.
C29_BatchesPartitionTheSystems ==
    /\ IsPartition(stage_batches, Len(systems))
    /\ last_run.by # "none" =>
           /\ IsPartition(last_run.batches, Len(systems))
           /\ Len(last_run.executed) = Len(systems)
           /\ \A idx \in 0..(Len(systems) - 1) :
                  \E k \in 1..Len(last_run.executed) : last_run.executed[k] = idx

\* Three systems ran in two batches, the third before the second.
C29_RunOfTwoBatches ==
    /\ Len(systems) = 3
    /\ last_run.by \in {"stage", "complete"}
    /\ Len(last_run.batches) = 2
    /\ last_run.executed = <<0, 2, 1>>

RECURSIVE FirstFitPass(_, _, _, _)
\* One pass over the systems from idx on, in the order they were added: a
\* system not yet assigned joins the batch iff it may share it with every
\* system already in it.
FirstFitPass(sys, batch, idx, assigned) ==
    IF idx >= Len(sys) THEN batch
    ELSE IF /\ idx \notin assigned
            /\ \A b \in Members(batch) : MayShareBatch(sys[b + 1], sys[idx + 1])
    THEN FirstFitPass(sys, Append(batch, idx), idx + 1, assigned)
    ELSE FirstFitPass(sys, batch, idx + 1, assigned)

RECURSIVE FirstFitBatches(_, _)
\* First-fit greedy packing over insertion order: the systems that did not
\* fit the batch are packed into the batches that follow it.
FirstFitBatches(sys, assigned) ==
    IF 0..(Len(sys) - 1) \subseteq assigned THEN <<>>
    ELSE LET batch == FirstFitPass(sys, <<>>, 0, assigned)
         IN <<batch>> \o FirstFitBatches(sys, assigned \cup Members(batch))

\* C30: the batches computed are those of first-fit greedy packing over
\* insertion order, so one list of systems always gives the same sequence
\* of batches with the same order inside each batch.
C30_BatchesAreFirstFitInInsertionOrder ==
    /\ stage_batches = FirstFitBatches(systems, {})
    /\ last_run.by # "none" => last_run.batches = FirstFitBatches(systems, {})

\* The place of system idx in the sequence executed, 0 when it did not run.
PlaceOf(executed, idx) ==
    IF \E k \in 1..Len(executed) : executed[k] = idx
    THEN CHOOSE k \in 1..Len(executed) : executed[k] = idx
    ELSE 0

\* In the run, every system ran before the systems added after it that it
\* conflicts with.
RunsInDeclarationOrder(run) ==
    \A A, B \in 0..(Len(systems) - 1) :
        (A < B /\ ~MayShareBatch(systems[A + 1], systems[B + 1]))
            => (/\ PlaceOf(run.executed, A) > 0
                /\ PlaceOf(run.executed, A) < PlaceOf(run.executed, B))

\* C31: if system A was added to a schedule before system B and A conflicts
\* with B, then A runs before B in every run of the schedule.
C31_ConflictingSystemsRunInDeclarationOrder ==
    last_run.by # "none" => RunsInDeclarationOrder(last_run)

\* C32: batch construction terminates for every finite list of systems:
\* each pass of the outer loop removes at least one system from remaining,
\* so the loop ends after at most n passes for n systems, also when a
\* system's own read and write sets overlap.
C32_BatchConstructionTerminates ==
    /\ [](rebuild.passes + Cardinality(rebuild.remaining) <= Len(rebuild.sys))
    /\ [][rebuild'.passes > rebuild.passes =>
              Cardinality(rebuild'.remaining) < Cardinality(rebuild.remaining)]_vars
    /\ (rebuild.sys # <<>>) ~> (rebuild.remaining = {})

\* The loop has ended after as many passes as there are systems, and one of
\* the systems reads a type that it writes.
C32_EndsAfterAsManyPassesAsSystems ==
    /\ Len(rebuild.sys) = MaxSystems
    /\ rebuild.remaining = {}
    /\ rebuild.passes = MaxSystems
    /\ \E n \in 1..Len(rebuild.sys) : rebuild.sys[n].reads \cap rebuild.sys[n].writes # {}

RECURSIVE CalledInOrder(_, _)
\* The calls world.spawn(bundle), world.despawn(e), world.insert(e, c) and
\* world.remove::<T>(e) that the commands of the queue stand for, made on w
\* one after the other in the order of the queue.
CalledInOrder(w, queue) ==
    IF queue = <<>> THEN Ret(w, <<"()">>)
    ELSE LET command == Head(queue)
             r == IF command.op = "Spawn" THEN spawn(w, command.bundle, command.v)
                  ELSE IF command.op = "Despawn" THEN despawn(w, command.entity)
                  ELSE IF command.op = "Insert"
                  THEN insert(w, command.entity, command.T, command.v)
                  ELSE remove(w, command.entity, command.T)
         IN IF r.f # "none" THEN Abort(r.f, w)
            ELSE CalledInOrder(r.w, Tail(queue))

\* C34: a command queued through Commands does not change the world until
\* the flush; the flush applies the commands in the order they were queued,
\* each once, and leaves the queue empty, so that a second flush changes
\* nothing.
C34_FlushAppliesQueueInOrder ==
    [][/\ (commands' # commands /\ commands' # <<>>) => World' = World
       /\ (commands # <<>> /\ commands' = <<>>) =>
              /\ CalledInOrder(World, commands).f = "none" => status' = "ok"
              /\ status' = "ok" =>
                     /\ World' = CalledInOrder(World, commands).w
                     /\ apply(World', commands').w = World']_vars

\* The queue without its k-th command.
Without(queue, k) == SubSeq(queue, 1, k - 1) \o SubSeq(queue, k + 1, Len(queue))

\* The k-th command of the queue is a despawn, insert or remove of an entity
\* that is not alive when Commands::apply comes to it.
MeetsDeadEntity(w, sh, queue, k) ==
    /\ queue[k].op # "Spawn"
    /\ apply(w, SubSeq(queue, 1, k - 1)).f = "none"
    /\ queue[k].entity \notin DOMAIN HistoryAfterAll(w, sh, SubSeq(queue, 1, k - 1))

\* C35: a deferred despawn, insert or remove whose entity is not alive when
\* the queue is flushed is ignored: it raises no error and no panic and
\* changes nothing, and the commands queued after it are applied as they
\* are without it.
C35_CommandOnDeadEntityIsIgnored ==
    [][(commands # <<>> /\ commands' = <<>>) =>
          \A k \in 1..Len(commands) :
              MeetsDeadEntity(World, shadow, commands, k) =>
                  /\ apply(World, SubSeq(commands, 1, k)).f = "none"
                  /\ apply(World, SubSeq(commands, 1, k)).w
                         = apply(World, SubSeq(commands, 1, k - 1)).w
                  /\ apply(World, commands).f = apply(World, Without(commands, k)).f
                  /\ apply(World, commands).w = apply(World, Without(commands, k)).w
                  /\ status' = "ok" =>
                         World' = apply(World, Without(commands, k)).w]_vars

\* A flush has applied an insert for an entity despawned before, and after
\* it a spawn.
C35_SpawnAfterInsertOnDeadEntity ==
    /\ status = "ok"
    /\ Len(flushed) = 2
    /\ flushed[1].op = "Insert"
    /\ flushed[1].entity \notin Live
    /\ flushed[2].op = "Spawn"
    /\ Live # {}

\* The numbers of the systems added to the Schedule.
Added(sts) == {sts[i][k].n : <<i, k>> \in {ik \in (1..Len(sts)) \X (1..MaxSystems) :
                                              ik[2] <= Len(sts[ik[1]])}}

\* The stage of system n, counted from 1, and the command it queues.
StageOf(sts, n) == CHOOSE i \in 1..Len(sts) : \E k \in 1..Len(sts[i]) : sts[i][k].n = n
CommandOf(sts, n) ==
    LET i == StageOf(sts, n)
    IN sts[i][CHOOSE k \in 1..Len(sts[i]) : sts[i][k].n = n].command

\* order holds every system once, by stage and, within a stage, by the
\* order in which the systems were added.
IsStageOrder(sts, order) ==
    /\ Len(order) = Cardinality(Added(sts))
    /\ {order[k] : k \in 1..Len(order)} = Added(sts)
    /\ \A a, b \in 1..Len(order) :
           a < b => \/ StageOf(sts, order[a]) < StageOf(sts, order[b])
                    \/ /\ StageOf(sts, order[a]) = StageOf(sts, order[b])
                       /\ order[a] < order[b]

\* C33: Schedule::run runs the systems of PreUpdate, then Update, then
\* PostUpdate, then Render, in insertion order within a stage, whatever the
\* order they were added in; after the last system it flushes the command
\* queue, and after the flush it advances the world tick by one.
C33_StagesRunInOrderThenFlushThenTick ==
    [][tick' # tick =>
          LET queue == commands \o [k \in 1..Len(ran') |-> CommandOf(stages, ran'[k])]
              res == apply(World, queue)
          IN /\ IsStageOrder(stages, ran')
             /\ res.f = "none"
             /\ World' = [res.w EXCEPT !.am = world_tick(res.w.am, tick + 1)]
             /\ commands' = <<>>
             /\ tick' = tick + 1]_vars

\* A run of three systems: the first added is a Render system and ran
\* last, the other two are of one stage; the Position spawned before the
\* run and those the flush spawned were written before the tick.
C33_RenderSystemAddedFirstRanLast ==
    /\ ran = <<2, 3, 1>>
    /\ Len(stages[4]) = 1
    /\ status = "ok"
    /\ tick = 1
    /\ Len(archetypes) = 1
    /\ ArchLen(archetypes[1]) = 4
    /\ \A k \in 1..4 : archetypes[1].columns[1].changed_ticks[k] = 0

\* C36: Archetype::remove_entity(row) returns the entity that was at the
\* end of the archetype, the one that then occupies row, so that the caller
\* can update that entity's location.
C36_RemoveEntityReturnsSwappedEntity ==
    \A a \in 1..Len(archetypes) :
        \A row \in 0..(ArchLen(archetypes[a]) - 1) :
            LET r == remove_entity(archetypes[a], row)
                last == archetypes[a].entities[ArchLen(archetypes[a])]
            IN r.f = "none" =>
                  /\ r.e = last
                  /\ row < ArchLen(r.a) => r.a.entities[row + 1] = r.e

\* C37: for a live entity e, entity_info(e) returns the id of e's current
\* archetype and exactly the names of the component types e has, one name
\* per type, whatever the TypeId order of the types; for an entity that is
\* not alive it returns None.
C37_EntityInfoNamesTheComponents ==
    status = "ok" =>
        \A e \in Handles :
            LET info == entity_info(World, e)
            IN IF e \in Live
               THEN /\ info[1] = "Some"
                    /\ info[2].archetype_id < Len(archetypes)
                    /\ Contains(archetypes[info[2].archetype_id + 1].entities, e)
                    /\ Len(info[2].component_types) = Cardinality(DOMAIN shadow[e])
                    /\ {info[2].component_types[i] :
                            i \in 1..Len(info[2].component_types)}
                           = {type_name(T) : T \in DOMAIN shadow[e]}
               ELSE info = <<"None">>

Classified(e, T) ==
    IF e \notin Live THEN "EntityNotFound"
    ELSE IF T \notin DOMAIN shadow[e] THEN "ComponentNotFound"
    ELSE "Ok"

\* The class of a result of try_get or try_get_mut.
ClassOf(ret) == IF ret[1] = "Err" THEN ret[2] ELSE ret[1]

\* C39: try_get<T>(e) and try_get_mut<T>(e) classify failures the same way:
\* Err(EntityNotFound) exactly when e is not alive, Err(ComponentNotFound)
\* exactly when e is alive and does not have T, and Ok otherwise.
C39_TryGetClassifiesFailures ==
    status = "ok" =>
        \A e \in Handles :
            \A T \in Types :
                /\ ClassOf(try_get(World, e, T)) = Classified(e, T)
                /\ \A v \in Vals :
                       ClassOf(try_get_mut(World, e, T, v).ret) = Classified(e, T)

\* C40: at every point of an iteration, before the first next(), between
\* two next() calls and after the last, size_hint() returns (n, Some(n))
\* where n is the number of items the next() calls that follow still yield.
C40_SizeHintIsTheNumberOfItemsLeft ==
    status = "ok" =>
        \A Q \in Queries :
            LET res == query(World, Q)
                items == res.ret
            IN res.f = "none" =>
                  /\ size_hint(World, Q, 0) = <<Len(items), <<"Some", Len(items)>>>>
                  /\ \A n \in 1..Len(items) :
                         \* after the n-th next(), which fetched items[n]
                         size_hint(res.w, Q, items[n].archetype)
                             = <<Len(items) - n, <<"Some", Len(items) - n>>>>
                  /\ size_hint(res.w, Q, Len(archetypes)) = <<0, <<"Some", 0>>>>
====
